---- MODULE Spec2Model ----
(***************************************************************************)
(* Model of the AgentMedic control core: the per-dependency circuit        *)
(* breaker (src/src/circuit_breaker.py), the Recoverer                     *)
(* (src/src/recoverer.py), the recovery part of the full monitoring        *)
(* cycle (src/src/main.py, AgentMedic.run_cycle), the quarantine gate      *)
(* (src/src/quarantine_system.py) and the escalation scheduler             *)
(* (src/src/heartbeat.py, AgentMedic.run).                                 *)
(*                                                                         *)
(* Time is a clock `now` in whole seconds.  datetime values are modelled   *)
(* as the second they were taken at; an Optional[datetime] is the empty    *)
(* sequence (None) or a one-element sequence <<t>>.                        *)
(***************************************************************************)
EXTENDS Integers, Sequences, FiniteSets, TLC

VARIABLES
    now,                \* wall clock, seconds
    \* ---- CircuitBreaker instance (circuit_breaker.py:29-35) ----
    state,              \* CircuitState value: "closed" | "open" | "half_open"
    failure_count,
    success_count,
    last_failure_time,  \* <<>> (None) or <<t>>
    \* ---- observation of the last breaker call ----
    cb_op,              \* name of the last breaker operation
    cb_ret,             \* value returned by the last can_execute()
    cb_pre,             \* breaker record just before the last operation
    consec,             \* record_failure() calls since the last record_success()
    run_start,          \* breaker state right after the last record_success() / construction
    long_run,           \* TRUE once some run of failures reached failure_threshold
    probe_successes,    \* record_success() calls since the breaker last became HalfOpen
    \* ---- config.agents registry (config.py:47-82) ----
    agent_cfg,          \* registered agent name -> AgentConfig
    \* ---- Recoverer instance (recoverer.py:63-72) ----
    restart_attempts,   \* subject name -> sequence of recorded restart times
    current_rpc_index,
    \* ---- Diagnoser / AgentMedic (diagnoser.py:45-46, main.py:46-51) ----
    incident_counter,
    cycle_count,
    \* ---- position of run_cycle ----
    cyc_pc,             \* "idle" | "recover"
    cyc_left,           \* incidents of the running cycle not yet handled
    cyc_stage,          \* diagnosis rule that produced the last handled incident
    \* ---- observation of the recovery loop ----
    step,               \* what the last iteration of the running cycle's recovery loop did
    all_attempts,       \* subject name -> every RestartProcess execution of the run:
                        \* [at: when the restart was attempted, recorded: whether
                        \* the Recoverer recorded it]
    \* ---- QuarantineSystem instance (quarantine_system.py:78-81) ----
    items,              \* item_id -> QuarantinedItem (a dict: its domain grows)
    \* ---- observation of the quarantine calls ----
    q_op,               \* the last quarantine call: name, arguments, the items
                        \* dict before the call, what it returned, and
                        \* whether no time has passed since (fresh)
    q_srcs,             \* item_id -> the distinct sources that submitted, and
                        \* those that confirmed, that content so far
    q_expired,          \* item_ids that were marked Expired at some time
    \* ---- AgentMedic / Heartbeat (main.py:46-58, heartbeat.py:68-93) ----
    running,            \* AgentMedic.running
    bridge_installed,   \* whether `from gemini_bridge import ...` succeeds
    last_healthy_time,  \* AgentMedic.last_healthy_time: None or <<t>>
    gemini_check_count,
    last_gemini_call_time,  \* Heartbeat.state[...]: None or <<t>>
    last_ai_call_time,      \* Heartbeat.state[...]: None or <<t>>
    \* ---- locals and position of AgentMedic.run ----
    last_deep_check,
    deep_check_interval,
    sched_pc,           \* "created" | "loop" | "cycle" | "stopped"
    \* ---- observation of the loop ----
    tick,               \* what the last iteration did, and whether a stop
                        \* signal arrived while its run_cycle was in progress
    tier1_times,        \* times of the last two Tier1 requests sent
    cycle_starts,       \* times of the last two run_cycle() starts
    alert_seen,         \* some Tier0 check failed so far
    stop_seen,          \* a stop signal or KeyboardInterrupt arrived so far
    \* ---- one run_cycle() from observation to return (main.py:96-139) ----
    snapshot,           \* the SystemStatus the Observer returned
    diagnosed,          \* the incident list analyze() returned
    fc_pc,              \* "idle" | "recover" | "returned"
    fc_next,            \* position in `diagnosed` of the next incident to handle
    handled,            \* what the last iteration of the recovery loop did
    \* ---- observation of the logging/metrics sink (logger.py) ----
    sink,               \* the events passed to the Logger during the cycle
    produced,           \* the results execute / confirm produced in the cycle
    \* ---- observation of the full cycles of one run (main.py:255-269) ----
    cycle_log,          \* [at, incidents] of every full cycle so far
    \* ---- MemoryPersistence instance (memory_persistence.py:75-87) ----
    version,
    snapshots,          \* list of MemorySnapshot
    \* ---- observation of the memory manager's calls ----
    mem_op,             \* the last call: name, argument, what it returned,
                        \* the number of create_snapshot calls so far and
                        \* the snapshots they returned, in call order
    \* ---- StateMachine instance (state_machine.py:36-40) ----
    sm_state,           \* StateMachine.state
    history,            \* list of (old_state, new_state) pairs
    \* ---- observation of the state machine's calls ----
    sm_op,              \* the last transition call: its argument, what it
                        \* returned, state and history before it
    \* ---- RateLimiter instance (rate_limiter.py:21-24) ----
    config,             \* RateLimitConfig: tokens_per_second, max_tokens
    tokens,
    last_update,
    \* ---- observation of the rate limiter's calls ----
    bucket_op,          \* the last call: name, tokens asked for, when it was
                        \* made, what it returned (wait_and_acquire: the
                        \* wait in milliseconds), tokens and last_update
                        \* before it, seconds slept
    \* ---- observation of a function wrapped by retry (retry_handler.py) ----
    retry_op            \* the last call of the wrapper: the RetryConfig, what
                        \* each invocation of the function would do, and
                        \* what the wrapper did

cbvars == <<state, failure_count, success_count, last_failure_time>>
cbobs  == <<cb_op, cb_ret, cb_pre, consec, run_start, long_run, probe_successes>>
recvars == <<agent_cfg, restart_attempts, current_rpc_index, incident_counter,
             cycle_count, cyc_pc, cyc_left, cyc_stage, step, all_attempts>>
qvars  == <<items, q_op, q_srcs, q_expired>>
schedvars == <<running, bridge_installed, last_healthy_time,
               gemini_check_count, last_gemini_call_time, last_ai_call_time,
               last_deep_check, deep_check_interval, sched_pc, tick,
               tier1_times, cycle_starts, alert_seen, stop_seen>>
cycvars == <<snapshot, diagnosed, fc_pc, fc_next, handled, sink, produced>>
utilvars == <<cycle_log, version, snapshots, mem_op, sm_state, history, sm_op,
              config, tokens, last_update, bucket_op, retry_op>>
vars   == <<now, state, failure_count, success_count, last_failure_time,
           cb_op, cb_ret, cb_pre, consec, run_start, long_run, probe_successes,
           agent_cfg, restart_attempts, current_rpc_index, incident_counter,
           cycle_count, cyc_pc, cyc_left, cyc_stage, step, all_attempts,
           items, q_op, q_srcs, q_expired,
           running, bridge_installed, last_healthy_time,
           gemini_check_count, last_gemini_call_time, last_ai_call_time,
           last_deep_check, deep_check_interval, sched_pc, tick,
           tier1_times, cycle_starts, alert_seen, stop_seen,
           snapshot, diagnosed, fc_pc, fc_next, handled, sink, produced,
           cycle_log, version, snapshots, mem_op, sm_state, history, sm_op,
           config, tokens, last_update, bucket_op, retry_op>>

----------------------------------------------------------------------------
\* Bounds of the model

MaxTimeCB == 90          \* the breaker clock stops advancing here
MaxFailureCount == 7     \* record_failure() is not called beyond this count

----------------------------------------------------------------------------
\* CircuitBreakerConfig defaults (circuit_breaker.py:19-23)

failure_threshold == 5
success_threshold == 2
timeout_seconds == 30

\* CircuitState (circuit_breaker.py:13-16)
CircuitState == [CLOSED |-> "closed", OPEN |-> "open", HALF_OPEN |-> "half_open"]

None == <<>>

\* The breaker record as one value.
CBRecord == [state |-> state, failure_count |-> failure_count,
             success_count |-> success_count,
             last_failure_time |-> last_failure_time]

\* CircuitBreaker._timeout_expired (circuit_breaker.py:81-86)
MutTimeoutStrict(lft, t) ==
    IF lft = None THEN TRUE
    ELSE (t - lft[1]) > timeout_seconds
_timeout_expired(lft, t) ==
    IF lft = None THEN TRUE
    ELSE (t - lft[1]) >= timeout_seconds

\* CircuitBreaker.can_execute as a function of the record and the clock:
\* the value returned and the state it leaves (circuit_breaker.py:37-49)
can_execute_ret(st, lft, t) ==
    IF st = CircuitState.CLOSED THEN TRUE
    ELSE IF st = CircuitState.OPEN THEN _timeout_expired(lft, t)
    ELSE TRUE

MutOpenAlwaysProbes(st, lft, t) ==
    IF st = CircuitState.OPEN THEN CircuitState.HALF_OPEN ELSE st
can_execute_state(st, lft, t) ==
    IF st = CircuitState.OPEN /\ _timeout_expired(lft, t) THEN CircuitState.HALF_OPEN ELSE st

\* CircuitBreaker.__init__ (circuit_breaker.py:29-35)
CBInit ==
    /\ state = CircuitState.CLOSED
    /\ failure_count = 0
    /\ success_count = 0
    /\ last_failure_time = None
    /\ cb_op = "init"
    /\ cb_ret = TRUE
    /\ cb_pre = [state |-> CircuitState.CLOSED, failure_count |-> 0, success_count |-> 0,
                 last_failure_time |-> None]
    /\ consec = 0
    /\ run_start = CircuitState.CLOSED
    /\ long_run = FALSE
    /\ probe_successes = 0

\* CircuitBreaker.can_execute (circuit_breaker.py:37-49)
CanExecute ==
    /\ state' = can_execute_state(state, last_failure_time, now)
    /\ cb_ret' = can_execute_ret(state, last_failure_time, now)
    /\ cb_op' = "can_execute"
    /\ cb_pre' = CBRecord
    /\ probe_successes' = IF state' # state THEN 0 ELSE probe_successes
    /\ UNCHANGED <<now, failure_count, success_count, last_failure_time,
                   consec, run_start, long_run, recvars,
                   qvars,
                   schedvars,
                   cycvars,
                   utilvars>>

\* CircuitBreaker.record_success, with _close (circuit_breaker.py:51-58, 75-79)
MutSuccessNeverCloses(st, fc, sc) ==
    IF st = CircuitState.HALF_OPEN
    THEN [state |-> st, failure_count |-> fc, success_count |-> sc + 1]
    ELSE [state |-> st, failure_count |-> 0, success_count |-> sc]
MutSuccessKeepsFailures(st, fc, sc) ==
    IF st = CircuitState.HALF_OPEN
    THEN IF sc + 1 >= success_threshold
         THEN [state |-> CircuitState.CLOSED, failure_count |-> 0, success_count |-> 0]
         ELSE [state |-> st, failure_count |-> fc, success_count |-> sc + 1]
    ELSE [state |-> st, failure_count |-> fc, success_count |-> sc]
MutCloseKeepsFailures(st, fc, sc) ==
    IF st = CircuitState.HALF_OPEN
    THEN IF sc + 1 >= success_threshold
         THEN [state |-> CircuitState.CLOSED, failure_count |-> fc, success_count |-> 0]
         ELSE [state |-> st, failure_count |-> fc, success_count |-> sc + 1]
    ELSE [state |-> st, failure_count |-> 0, success_count |-> sc]
record_success_result(st, fc, sc) ==
    IF st = CircuitState.HALF_OPEN
    THEN IF sc + 1 >= success_threshold
         THEN [state |-> CircuitState.CLOSED, failure_count |-> 0, success_count |-> 0]
         ELSE [state |-> st, failure_count |-> fc, success_count |-> sc + 1]
    ELSE [state |-> st, failure_count |-> 0, success_count |-> sc]

RecordSuccess ==
    LET r == record_success_result(state, failure_count, success_count) IN
    /\ state' = r.state
    /\ failure_count' = r.failure_count
    /\ success_count' = r.success_count
    /\ cb_op' = "record_success"
    /\ cb_pre' = CBRecord
    /\ consec' = 0
    /\ run_start' = r.state
    /\ probe_successes' = IF state = CircuitState.HALF_OPEN THEN probe_successes + 1
                          ELSE probe_successes
    /\ UNCHANGED <<now, last_failure_time, cb_ret, long_run, recvars,
                   qvars,
                   schedvars,
                   cycvars,
                   utilvars>>

\* CircuitBreaker.record_failure, with _open (circuit_breaker.py:60-73)
MutFailureThresholdOff(st, fc, sc) ==
    IF st = CircuitState.HALF_OPEN
    THEN [state |-> CircuitState.OPEN, failure_count |-> fc + 1, success_count |-> 0]
    ELSE IF fc + 1 > failure_threshold
    THEN [state |-> CircuitState.OPEN, failure_count |-> fc + 1, success_count |-> 0]
    ELSE [state |-> st, failure_count |-> fc + 1, success_count |-> sc]
MutFailureKeepsSuccesses(st, fc, sc) ==
    IF st = CircuitState.HALF_OPEN
    THEN [state |-> CircuitState.OPEN, failure_count |-> fc + 1, success_count |-> sc]
    ELSE IF fc + 1 >= failure_threshold
    THEN [state |-> CircuitState.OPEN, failure_count |-> fc + 1, success_count |-> sc]
    ELSE [state |-> st, failure_count |-> fc + 1, success_count |-> sc]
record_failure_result(st, fc, sc) ==
    IF st = CircuitState.HALF_OPEN
    THEN [state |-> CircuitState.OPEN, failure_count |-> fc + 1, success_count |-> 0]
    ELSE IF fc + 1 >= failure_threshold
    THEN [state |-> CircuitState.OPEN, failure_count |-> fc + 1, success_count |-> 0]
    ELSE [state |-> st, failure_count |-> fc + 1, success_count |-> sc]

RecordFailure ==
    LET r == record_failure_result(state, failure_count, success_count) IN
    /\ failure_count < MaxFailureCount
    /\ state' = r.state
    /\ failure_count' = r.failure_count
    /\ success_count' = r.success_count
    /\ last_failure_time' = <<now>>
    /\ cb_op' = "record_failure"
    /\ cb_pre' = CBRecord
    /\ consec' = consec + 1
    /\ long_run' = (long_run \/ consec + 1 >= failure_threshold)
    /\ UNCHANGED <<now, cb_ret, run_start, probe_successes, recvars,
                   qvars,
                   schedvars,
                   cycvars,
                   utilvars>>

\* CircuitBreaker.get_status (circuit_breaker.py:88-96): builds the status
\* dict; its "can_execute" entry is obtained by calling self.can_execute().
GetStatus ==
    /\ state' = can_execute_state(state, last_failure_time, now)
    /\ cb_op' = "get_status"
    /\ cb_pre' = CBRecord
    /\ probe_successes' = IF state' # state THEN 0 ELSE probe_successes
    /\ UNCHANGED <<now, failure_count, success_count, last_failure_time,
                   cb_ret, consec, run_start, long_run, recvars,
                   qvars,
                   schedvars,
                   cycvars,
                   utilvars>>

\* Passage of time between two breaker calls.
CBTick ==
    /\ \E d \in {10, 20} :   \* seconds between two breaker calls
          /\ now + d <= MaxTimeCB
          /\ now' = now + d
    /\ cb_op' = "tick"
    /\ cb_pre' = CBRecord
    /\ UNCHANGED <<cbvars, cb_ret, consec, run_start, long_run, probe_successes,
                   recvars,
                   qvars,
                   schedvars,
                   cycvars,
                   utilvars>>

----------------------------------------------------------------------------
\* Recoverer (src/src/recoverer.py) and the registry it reads (src/src/config.py)

MaxTimeRec == 2200          \* the clock stops advancing here in recovery runs
MaxCycles == 3              \* full cycles per run
MaxIncidentsPerCycle == 2   \* incidents diagnosed in one cycle
MaxIncidents == 2           \* incidents diagnosed in one run
MaxDepIncidents == 1        \* the same, in runs that also feed the breaker
MaxRestartsCfg == 2         \* largest max_restarts a registered agent is given

\* Optional[str] values: NoName stands for None
NoName == "<none>"
RegisteredAgent == "svc-A"

\* IncidentType (diagnoser.py:17-25)
IncidentType ==
    [PROCESS_CRASH |-> "process_crash",
     PROCESS_HANG |-> "process_hang",
     HEALTH_ENDPOINT_FAILURE |-> "health_endpoint_failure",
     RPC_RATE_LIMITED |-> "rpc_rate_limited",
     RPC_UNAVAILABLE |-> "rpc_unavailable",
     TRANSACTION_FAILURES |-> "transaction_failures",
     HIGH_LATENCY |-> "high_latency",
     UNKNOWN |-> "unknown"]

\* RecoveryAction (recoverer.py:19-25)
RecoveryAction ==
    [RESTART_PROCESS |-> "restart_process",
     SWITCH_RPC |-> "switch_rpc",
     APPLY_COOLDOWN |-> "apply_cooldown",
     CLEAR_CACHE |-> "clear_cache",
     ALERT_HUMAN |-> "alert_human",
     NO_ACTION |-> "no_action"]

\* RecoveryStatus (recoverer.py:28-34)
RecoveryStatus ==
    [PENDING |-> "pending",
     IN_PROGRESS |-> "in_progress",
     SUCCESS |-> "success",
     PARTIAL |-> "partial",
     FAILED |-> "failed",
     SKIPPED |-> "skipped"]

\* AgentConfig defaults and Recoverer / Verifier constants
restart_backoff_seconds == 60   \* config.py:44
window_minutes == 30            \* recoverer.py:74
MutCooldownHalved == restart_backoff_seconds \div 2
cooldown_seconds == 60          \* recoverer.py:142
verification_delay == 10        \* verifier.py:33
NumRpcEndpoints == 1            \* recoverer.py:68-71

\* AgentConfig (config.py:34-45), as far as the Recoverer reads it
AgentConfig(name, proc, cmd, maxr) ==
    [name |-> name, process_name |-> proc, restart_command |-> cmd,
     max_restarts |-> maxr, restart_backoff_seconds |-> restart_backoff_seconds]

\* The registries a run may start with: one registered agent, with or
\* without a custom restart command.
AgentRegistries ==
    { [a \in {RegisteredAgent} |-> AgentConfig(a, "svc-a.service", cmd, maxr)] :
        cmd \in {"restart-svc-a", NoName},
        maxr \in 1..MaxRestartsCfg }

\* Incident (diagnoser.py:28-39), as far as the Recoverer reads it
Incident(id, agent, type, rh) ==
    [id |-> id, agent_name |-> agent, incident_type |-> type, requires_human |-> rh]

\* Incidents a cycle may hand to the Recoverer: agent-level types carry the
\* name of a registered agent (the Observer probes registered agents only),
\* dependency-level ones carry None (diagnoser.py:54-208).
IncidentInputs(id) ==
    { Incident(id, a, ty, rh) :
        a \in {RegisteredAgent},
        ty \in {IncidentType.PROCESS_CRASH, IncidentType.PROCESS_HANG,
                IncidentType.HEALTH_ENDPOINT_FAILURE,
                IncidentType.TRANSACTION_FAILURES, IncidentType.HIGH_LATENCY},
        rh \in BOOLEAN }
    \cup { Incident(id, NoName, ty, rh) :
              ty \in {IncidentType.RPC_RATE_LIMITED, IncidentType.RPC_UNAVAILABLE,
                      IncidentType.HIGH_LATENCY},
              rh \in BOOLEAN }

\* Position of the rule that yields an incident in the list analyze() builds:
\* per agent the process rule, then the health-endpoint rule (hang, endpoint
\* failure or high latency), then the transactions rule (diagnoser.py:64-147);
\* last the one dependency rule (diagnoser.py:151-208).  Each rule yields at
\* most one incident per cycle.
NumRules == 4
IncidentRule(incident) ==
    IF incident.agent_name = NoName THEN 4
    ELSE IF incident.incident_type = IncidentType.PROCESS_CRASH THEN 1
    ELSE IF incident.incident_type = IncidentType.TRANSACTION_FAILURES THEN 3
    ELSE 2

\* RecoveryPlan.parameters: `keys` is the set of keys the dict holds
NoParams ==
    [keys |-> {}, command |-> NoName, process_name |-> NoName,
     backoff_seconds |-> 0, force |-> FALSE, cooldown_seconds |-> 0]

\* dict.get(key, default)
ParamGet(params, key, default) ==
    IF key \in params.keys THEN params[key] ELSE default

\* RecoveryPlan (recoverer.py:37-45); the reason text is modelled by a tag
RecoveryPlan(id, action, agent, params, rh, reason) ==
    [incident_id |-> id, action |-> action, agent_name |-> agent,
     parameters |-> params, requires_human |-> rh, reason |-> reason]

\* datetime.timestamp() / datetime.fromtimestamp() on the naive UTC values
\* the Recoverer stores: seconds of the same clock (host zone without
\* daylight-saving shifts).
timestamp(t) == t
fromtimestamp(ts) == ts

\* Recoverer._get_restart_count (recoverer.py:74-82): the entries kept and
\* their number, for the attempts list of one agent at time t.
recent_restarts(attempts, t) ==
    LET cutoff == timestamp(t) - (window_minutes * 60)
        recent == SelectSeq(attempts, LAMBDA x : timestamp(x) > cutoff)
    IN [i \in 1..Len(recent) |-> fromtimestamp(timestamp(recent[i]))]

_get_restart_count(attempts, t) == Len(recent_restarts(attempts, t))

\* Recoverer._record_restart (recoverer.py:84-88)
_record_restart(attempts, agent, t) ==
    [attempts EXCEPT ![agent] = Append(@, t)]

\* config.get_agent (config.py:80-82): is the name registered
is_registered(cfg, name) == name \in DOMAIN cfg

\* recoverer.py:94  `if incident.requires_human`
MutHumanFlagIgnored(incident) == FALSE
human_required(incident) == incident.requires_human

\* recoverer.py:109  `if restart_count >= agent.max_restarts`
MutCapStrict(restart_count, max_restarts) == restart_count > max_restarts
restart_cap_reached(restart_count, max_restarts) == restart_count >= max_restarts

\* Recoverer.plan_action (recoverer.py:90-169): the plan returned for an
\* incident, given the registry, the restart_attempts dict and the clock.
plan_action(incident, cfg, attempts, t) ==
    IF human_required(incident)
    THEN RecoveryPlan(incident.id, RecoveryAction.ALERT_HUMAN, incident.agent_name, NoParams,
                      TRUE, "incident.description")
    ELSE IF incident.incident_type = IncidentType.PROCESS_CRASH
    THEN IF incident.agent_name # NoName /\ is_registered(cfg, incident.agent_name)
         THEN LET agent == cfg[incident.agent_name]
                  restart_count == _get_restart_count(attempts[agent.name], t)
              IN IF restart_cap_reached(restart_count, agent.max_restarts)
                 THEN RecoveryPlan(incident.id, RecoveryAction.ALERT_HUMAN, agent.name, NoParams,
                                   TRUE, "max_restarts_exceeded")
                 ELSE RecoveryPlan(incident.id, RecoveryAction.RESTART_PROCESS, agent.name,
                        [NoParams EXCEPT
                           !.keys = {"command", "process_name", "backoff_seconds"},
                           !.command = agent.restart_command,
                           !.process_name = agent.process_name,
                           !.backoff_seconds =
                               agent.restart_backoff_seconds * (restart_count + 1)],
                        FALSE, "")
         ELSE RecoveryPlan(incident.id, RecoveryAction.NO_ACTION, incident.agent_name, NoParams,
                           FALSE, "no_automated_recovery")
    ELSE IF incident.incident_type = IncidentType.PROCESS_HANG
    THEN RecoveryPlan(incident.id, RecoveryAction.RESTART_PROCESS, incident.agent_name,
                      [NoParams EXCEPT !.keys = {"force"}, !.force = TRUE],
                      FALSE, "")
    ELSE IF incident.incident_type = IncidentType.RPC_RATE_LIMITED
    THEN RecoveryPlan(incident.id, RecoveryAction.APPLY_COOLDOWN, NoName,
                      [NoParams EXCEPT !.keys = {"cooldown_seconds"},
                                       !.cooldown_seconds = cooldown_seconds],
                      FALSE, "")
    ELSE IF incident.incident_type = IncidentType.RPC_UNAVAILABLE
    THEN RecoveryPlan(incident.id, RecoveryAction.SWITCH_RPC, NoName, NoParams, FALSE, "")
    ELSE IF incident.incident_type = IncidentType.TRANSACTION_FAILURES
    THEN RecoveryPlan(incident.id, RecoveryAction.ALERT_HUMAN, incident.agent_name, NoParams,
                      TRUE, "transaction_failures_require_investigation")
    ELSE RecoveryPlan(incident.id, RecoveryAction.NO_ACTION, incident.agent_name, NoParams,
                      FALSE, "no_automated_recovery")

\* The restart_attempts dict after plan_action: the ProcessCrash branch of a
\* registered agent prunes that agent's list while counting (recoverer.py:80-81).
plan_action_attempts(incident, cfg, attempts, t) ==
    IF /\ ~human_required(incident)
       /\ incident.incident_type = IncidentType.PROCESS_CRASH
       /\ incident.agent_name # NoName
       /\ is_registered(cfg, incident.agent_name)
    THEN [attempts EXCEPT ![incident.agent_name] = recent_restarts(@, t)]
    ELSE attempts

\* Restart methods in the order _execute_restart tries them (recoverer.py:237-304)
RestartMethods == <<"custom_command", "systemctl", "docker">>

\* What the host may answer to the restart commands: execution stops at the
\* first command that exits with 0, so it is enough to say from which method
\* of the list on the commands succeed (k = 4: none does).
RestartOutcomes ==
    { [m \in {"custom_command", "systemctl", "docker"} |-> \E i \in k..3 : RestartMethods[i] = m] : k \in 1..4 }

\* Recoverer._execute_restart (recoverer.py:229-314).  `outs` tells, for each
\* method, whether the command it runs would exit with code 0.  A method
\* given None as service name raises before any process starts.
\* slept: seconds slept first; invoked: methods attempted, in order;
\* started: methods that launched a process; recorded: _record_restart ran.
restart_is_recorded(ok) == ok

_execute_restart(plan, outs) ==
    LET params == plan.parameters
        backoff == ParamGet(params, "backoff_seconds", 0)
        command == ParamGet(params, "command", NoName)
        process_name == ParamGet(params, "process_name", plan.agent_name)
        use_cmd == command # NoName
        cmd_ok == use_cmd /\ outs["custom_command"]
        svc_ok == process_name # NoName /\ outs["systemctl"]
        dck_ok == process_name # NoName /\ outs["docker"]
        invoked == (IF use_cmd THEN <<"custom_command">> ELSE <<>>)
                   \o (IF cmd_ok THEN <<>>
                       ELSE <<"systemctl">> \o (IF svc_ok THEN <<>> ELSE <<"docker">>))
        ok == cmd_ok \/ svc_ok \/ dck_ok
    IN [status |-> IF ok THEN RecoveryStatus.SUCCESS ELSE RecoveryStatus.FAILED,
        method |-> IF ok THEN invoked[Len(invoked)] ELSE NoName,
        invoked |-> invoked,
        started |-> { invoked[i] : i \in { j \in 1..Len(invoked) :
                         invoked[j] = "custom_command" \/ process_name # NoName } },
        slept |-> IF backoff > 0 THEN backoff ELSE 0,
        recorded |-> restart_is_recorded(ok),
        rpc_step |-> 0]

\* Recoverer._execute_switch_rpc (recoverer.py:316-329)
_execute_switch_rpc(plan) ==
    [status |-> RecoveryStatus.SUCCESS, method |-> NoName, invoked |-> <<>>, started |-> {},
     slept |-> 0, recorded |-> FALSE, rpc_step |-> 1]

\* Recoverer._execute_cooldown (recoverer.py:331-344)
_execute_cooldown(plan) ==
    [status |-> RecoveryStatus.SUCCESS, method |-> NoName, invoked |-> <<>>, started |-> {},
     slept |-> ParamGet(plan.parameters, "cooldown_seconds", 60),
     recorded |-> FALSE, rpc_step |-> 0]

\* The result of a plan that performs nothing
MutAlertRestarts ==
    [status |-> "success", method |-> "systemctl", invoked |-> <<"systemctl">>,
     started |-> {"systemctl"}, slept |-> 0, recorded |-> TRUE, rpc_step |-> 0]
SkippedResult ==
    [status |-> RecoveryStatus.SKIPPED, method |-> NoName, invoked |-> <<>>, started |-> {},
     slept |-> 0, recorded |-> FALSE, rpc_step |-> 0]

MutNoActionCools(plan, outs) ==
    IF plan.action = RecoveryAction.RESTART_PROCESS THEN _execute_restart(plan, outs)
    ELSE IF plan.action = RecoveryAction.SWITCH_RPC THEN _execute_switch_rpc(plan)
    ELSE IF plan.action = RecoveryAction.ALERT_HUMAN THEN SkippedResult
    ELSE _execute_cooldown(plan)
\* Recoverer.execute (recoverer.py:171-227)
execute(plan, outs) ==
    IF plan.action = RecoveryAction.RESTART_PROCESS THEN _execute_restart(plan, outs)
    ELSE IF plan.action = RecoveryAction.SWITCH_RPC THEN _execute_switch_rpc(plan)
    ELSE IF plan.action = RecoveryAction.APPLY_COOLDOWN THEN _execute_cooldown(plan)
    ELSE SkippedResult

\* What execute did to the outside world
EffectsOf(result) ==
    (IF result.slept > 0 THEN {"sleep"} ELSE {})
    \cup (IF result.started # {} THEN {"start_process"} ELSE {})
    \cup (IF result.rpc_step > 0 THEN {"switch_endpoint"} ELSE {})
    \cup (IF result.recorded THEN {"record_restart"} ELSE {})

\* main.py:123-127: is the plan handed to execute
cycle_executes(plan) == ~plan.requires_human /\ plan.action # RecoveryAction.NO_ACTION

NoStep ==
    [incident |-> Incident(0, NoName, IncidentType.UNKNOWN, FALSE),
     plan |-> RecoveryPlan(0, RecoveryAction.NO_ACTION, NoName, NoParams, FALSE, ""),
     executed |-> FALSE,
     result |-> SkippedResult,
     effects |-> {},
     blocked |-> FALSE,
     count |-> 0,
     attempts |-> 0,
     at |-> 0]

\* Recoverer.__init__, Diagnoser.__init__, AgentMedic.__init__
RecInit ==
    /\ restart_attempts = [a \in {RegisteredAgent, NoName} |-> <<>>]
    /\ current_rpc_index = 0
    /\ incident_counter = 0
    /\ cycle_count = 0
    /\ cyc_pc = "idle"
    /\ cyc_left = 0
    /\ cyc_stage = 0
    /\ step = NoStep
    /\ all_attempts = [a \in {RegisteredAgent, NoName} |-> <<>>]

\* Observer's own count over the full log of one subject: the executions
\* attempted, and those recorded, in the window_minutes before time t.
AttemptsInWindow(log, t) ==
    Cardinality({ i \in 1..Len(log) : t - log[i].at < window_minutes * 60 })

RecordedInWindow(log, t) ==
    Cardinality({ i \in 1..Len(log) :
                    log[i].recorded /\ t - log[i].at < window_minutes * 60 })

\* The clock moves to t2; the breaker observer notes that time has passed.
Elapse(t2) ==
    /\ now' = t2
    /\ cb_op' = IF t2 # now THEN "tick" ELSE cb_op
    /\ cb_pre' = IF t2 # now THEN CBRecord ELSE cb_pre

\* AgentMedic.run_cycle, lines 101-118: count the cycle, observe, diagnose.
\* The diagnosed list is revealed one incident at a time by CycleStep; its
\* length is fixed here and the ids are taken from the Diagnoser's counter.
CycleBeginUpTo(cap) ==
    /\ cyc_pc = "idle"
    /\ cycle_count < MaxCycles
    /\ cycle_count' = cycle_count + 1
    /\ \E n \in 0..MaxIncidentsPerCycle :
          /\ n <= NumRules
          /\ incident_counter + n <= cap
          /\ cyc_left' = n
          /\ incident_counter' = incident_counter + n
    /\ cyc_pc' = "recover"
    /\ cyc_stage' = 0
    /\ UNCHANGED <<now, cbvars, cbobs, agent_cfg, restart_attempts,
                   current_rpc_index, step, all_attempts,
                   qvars,
                   schedvars,
                   cycvars,
                   utilvars>>

CycleBegin == CycleBeginUpTo(MaxIncidents)

DepCycleBegin == CycleBeginUpTo(MaxDepIncidents)

\* AgentMedic.run_cycle, one iteration of the recovery loop (main.py:120-130):
\* plan_action, then execute and confirm unless the plan needs a human or is
\* NoAction.  confirm first sleeps the settle delay (verifier.py:40).
CycleStep ==
    /\ cyc_pc = "recover"
    /\ cyc_left > 0
    /\ \E incident \in IncidentInputs(incident_counter - cyc_left + 1),
          outs \in RestartOutcomes :
          LET plan == plan_action(incident, agent_cfg, restart_attempts, now)
              pruned == plan_action_attempts(incident, agent_cfg, restart_attempts, now)
              run == cycle_executes(plan)
              result == IF run THEN execute(plan, outs) ELSE SkippedResult
              t_done == now + result.slept
              t_end == IF run THEN t_done + verification_delay ELSE now
          IN
          /\ IncidentRule(incident) > cyc_stage
          /\ IncidentRule(incident) <= NumRules - (cyc_left - 1)
          /\ cyc_stage' = IncidentRule(incident)
          /\ t_end <= MaxTimeRec
          /\ restart_attempts' =
                IF result.recorded
                THEN _record_restart(pruned, plan.agent_name, t_done)
                ELSE pruned
          /\ current_rpc_index' =
                (current_rpc_index + result.rpc_step) % NumRpcEndpoints
          /\ all_attempts' =
                IF run /\ plan.action = RecoveryAction.RESTART_PROCESS
                THEN [all_attempts EXCEPT ![plan.agent_name] =
                         Append(@, [at |-> t_done, recorded |-> result.recorded])]
                ELSE all_attempts
          /\ step' = [incident |-> incident,
                      plan |-> plan,
                      executed |-> run,
                      result |-> result,
                      effects |-> EffectsOf(result),
                      blocked |-> (state = CircuitState.OPEN
                                   /\ ~_timeout_expired(last_failure_time, now)),
                      count |-> RecordedInWindow(all_attempts[incident.agent_name], now),
                      attempts |-> AttemptsInWindow(all_attempts[incident.agent_name], now),
                      at |-> now]
          /\ Elapse(t_end)
    /\ cyc_left' = cyc_left - 1
    /\ UNCHANGED <<cbvars, cb_ret, consec, run_start, long_run, probe_successes,
                   agent_cfg, incident_counter, cycle_count, cyc_pc,
                   qvars,
                   schedvars,
                   cycvars,
                   utilvars>>

\* AgentMedic.run_cycle, lines 132-139: print the human alerts and return
CycleEnd ==
    /\ cyc_pc = "recover"
    /\ cyc_left = 0
    /\ cyc_pc' = "idle"
    /\ cyc_stage' = 0
    /\ step' = NoStep
    /\ UNCHANGED <<now, cbvars, cbobs, agent_cfg, restart_attempts,
                   current_rpc_index, incident_counter, cycle_count, cyc_left,
                   all_attempts,
                   qvars,
                   schedvars,
                   cycvars,
                   utilvars>>

\* Passage of time between two cycles.
RecTick ==
    /\ cyc_pc = "idle"
    /\ \E d \in {900} :   \* seconds between two cycles
          /\ now + d <= MaxTimeRec
          /\ Elapse(now + d)
    /\ UNCHANGED <<cbvars, cb_ret, consec, run_start, long_run, probe_successes,
                   recvars,
                   qvars,
                   schedvars,
                   cycvars,
                   utilvars>>

----------------------------------------------------------------------------
\* Quarantine gate (src/src/quarantine_system.py)

MaxTimeQ == 108000       \* the quarantine clock stops advancing here (30 h)
MaxNotes == 3            \* no call appends to review_notes of this length

\* QuarantineStatus (quarantine_system.py:28-33)
QuarantineStatus ==
    [PENDING |-> "pending", UNDER_REVIEW |-> "under_review",
     VERIFIED |-> "verified", REJECTED |-> "rejected", EXPIRED |-> "expired"]

\* QuarantineSystem.CONFIRMATION_REQUIREMENTS (quarantine_system.py:61-67)
CONFIRMATION_REQUIREMENTS ==
    ("incident" :> 1) @@ ("threat" :> 2) @@ ("pattern" :> 3) @@
    ("oracle_data" :> 2) @@ ("external_intel" :> 3)

\* QuarantineSystem.QUARANTINE_DURATION (quarantine_system.py:70-76); the
\* source gives hours, timedelta(hours=h) is h * 3600 seconds: 1, 6, 24, 0.5
\* and 12 hours.
QUARANTINE_DURATION ==
    ("incident" :> 3600) @@ ("threat" :> 21600) @@ ("pattern" :> 86400) @@
    ("oracle_data" :> 1800) @@ ("external_intel" :> 43200)

\* defaults of the two .get() calls in submit (lines 126, 138): 24 hours, 2

\* dict.get(key, default)
DictGet(d, k, default) == IF k \in DOMAIN d THEN d[k] ELSE default

\* data_type arguments: the five listed types and one the tables do not list

\* Strings are sequences of pieces, so that an f-string is a concatenation
\* and two strings are equal exactly when their pieces are; "" is <<>>.

\* source arguments: two plain names, and one name that reads like the note
\* an earlier submission left behind
Sources == {<<"oracle-a">>, <<"oracle-b">>, <<"Submitted by: ", "oracle-a">>}

\* content arguments (dicts) and their sha256-derived ids
\* (QuarantineSystem._generate_id, quarantine_system.py:98-101)
Contents == {[alert |-> "rpc-down"]}
_generate_id(content) ==
    IF content.alert = "rpc-down" THEN "5f0c9a1be27d4418" ELSE "c41d77aa0b93e6f2"

\* datetime.isoformat() and datetime.fromisoformat() (lossless for aware
\* datetimes)
isoformat(t) == [iso |-> t]
fromisoformat(s) == s.iso

\* x in list
ListContains(seq, x) == \E i \in 1..Len(seq) : seq[i] = x

\* QuarantinedItem (quarantine_system.py:36-49)
QuarantinedItem(item_id, data_type, content, source, submitted_at, status, review_notes, confirmations, required_confirmations, expires_at) ==
    [item_id |-> item_id,
     data_type |-> data_type,
     content |-> content,
     source |-> source,
     submitted_at |-> submitted_at,
     status |-> status,
     review_notes |-> review_notes,
     confirmations |-> confirmations,
     required_confirmations |-> required_confirmations,
     expires_at |-> expires_at,
     verified_at |-> None]

\* QuarantineSystem._check_verification (quarantine_system.py:147-152)
_check_verification(item, t) ==
    IF item.confirmations >= item.required_confirmations
    THEN [item EXCEPT !.status = QuarantineStatus.VERIFIED,
                      !.verified_at = <<isoformat(t)>>,
                      !.review_notes = Append(@, <<"AUTO-VERIFIED: Met confirmation threshold">>)]
    ELSE item

\* QuarantineSystem.submit (quarantine_system.py:103-145): the items dict
\* after the call
submit(its, data_type, content, source, t) ==
    LET item_id == _generate_id(content) IN
    IF item_id \in DOMAIN its
    THEN LET existing == its[item_id] IN
         IF existing.status = QuarantineStatus.PENDING
            /\ ~ListContains(existing.review_notes, source)
         THEN [its EXCEPT ![item_id] =
                 _check_verification(
                     [existing EXCEPT
                        !.confirmations = @ + 1,
                        !.review_notes = Append(@, <<"Confirmed by: ">> \o source)],
                     t)]
         ELSE its
    ELSE LET item == QuarantinedItem(
                        item_id, data_type, content, source, isoformat(t),
                        QuarantineStatus.PENDING, << <<"Submitted by: ">> \o source >>, 1,
                        DictGet(CONFIRMATION_REQUIREMENTS, data_type,
                                2),
                        isoformat(t + DictGet(QUARANTINE_DURATION, data_type,
                                              86400)))
         IN  its @@ (item_id :> _check_verification(item, t))

\* QuarantineSystem.confirm (quarantine_system.py:154-167)
confirm_ret(its, item_id) ==
    item_id \in DOMAIN its /\ its[item_id].status = QuarantineStatus.PENDING

confirm(its, item_id, source, notes, t) ==
    IF confirm_ret(its, item_id)
    THEN [its EXCEPT ![item_id] =
            _check_verification(
                [@ EXCEPT
                   !.confirmations = @ + 1,
                   !.review_notes =
                       Append(@, <<"Confirmed by ">> \o source
                                    \o <<": ">> \o notes)],
                t)]
    ELSE its

\* QuarantineSystem.reject (quarantine_system.py:169-178)
reject(its, item_id, reason) ==
    IF item_id \in DOMAIN its
    THEN [its EXCEPT ![item_id] =
            [@ EXCEPT !.status = QuarantineStatus.REJECTED,
                      !.review_notes = Append(@, <<"REJECTED: ">> \o reason)]]
    ELSE its

\* QuarantineSystem._expire_old_items (quarantine_system.py:192-201)
MutExpireLate(its, t) ==
    [id \in DOMAIN its |->
        IF its[id].status = QuarantineStatus.PENDING
           /\ t > fromisoformat(its[id].expires_at) + 21600
        THEN [its[id] EXCEPT !.status = QuarantineStatus.EXPIRED,
                             !.review_notes = Append(@, <<"EXPIRED: Did not meet confirmation threshold in time">>)]
        ELSE its[id]]

_expire_old_items(its, t) ==
    [id \in DOMAIN its |->
        IF its[id].status = QuarantineStatus.PENDING /\ t > fromisoformat(its[id].expires_at)
        THEN [its[id] EXCEPT !.status = QuarantineStatus.EXPIRED,
                             !.review_notes = Append(@, <<"EXPIRED: Did not meet confirmation threshold in time">>)]
        ELSE its[id]]

\* QuarantineSystem.is_trusted (quarantine_system.py:203-208)
is_trusted(its, content) ==
    LET item_id == _generate_id(content) IN
    IF item_id \in DOMAIN its
    THEN its[item_id].status = QuarantineStatus.VERIFIED
    ELSE FALSE

\* Record of a call: its name and arguments, the items dict it found (pre),
\* and what it returned
QCall(name, item_id, source, ret_ok, ret_ids) ==
    [name |-> name, item_id |-> item_id, source |-> source, fresh |-> TRUE,
     pre |-> items, ret_ok |-> ret_ok, ret_ids |-> ret_ids]

\* QuarantineSystem.__init__ with no storage file (quarantine_system.py:78-91)
QInit ==
    /\ items = <<>>
    /\ q_op = [name |-> "init", item_id |-> "", source |-> <<>>,
               fresh |-> FALSE, pre |-> <<>>, ret_ok |-> TRUE,
               ret_ids |-> {}]
    /\ q_srcs = [id \in {_generate_id(c) : c \in Contents} |-> [submit |-> {}, confirm |-> {}]]
    /\ q_expired = {}

\* A call appends to review_notes only while the list is short
NotesShort(item_id) ==
    item_id \in DOMAIN items => Len(items[item_id].review_notes) < MaxNotes

\* submit(data_type, content, source)
Submit ==
    \E data_type \in {"incident", "threat", "pattern", "oracle_data",
                      "external_intel", "metric"},
       content \in Contents, source \in Sources :
        LET item_id == _generate_id(content) IN
        /\ NotesShort(item_id)
        /\ items' = submit(items, data_type, content, source, now)
        /\ q_op' = QCall("submit", item_id, source, TRUE, {})
        /\ q_srcs' = [q_srcs EXCEPT ![item_id].submit = @ \cup {source}]
        /\ UNCHANGED <<now, q_expired, cbvars, cbobs, recvars,
                   schedvars,
                   cycvars,
                   utilvars>>

\* confirm(item_id, source)
Confirm ==
    \E content \in Contents, source \in Sources :
        LET item_id == _generate_id(content) IN
        /\ NotesShort(item_id)
        /\ items' = confirm(items, item_id, source, <<>>, now)
        /\ q_op' = QCall("confirm", item_id, source,
                         confirm_ret(items, item_id), {})
        /\ q_srcs' = IF confirm_ret(items, item_id)
                     THEN [q_srcs EXCEPT ![item_id].confirm = @ \cup {source}]
                     ELSE q_srcs
        /\ UNCHANGED <<now, q_expired, cbvars, cbobs, recvars,
                   schedvars,
                   cycvars,
                   utilvars>>

\* reject(item_id, reason)
Reject ==
    \E content \in Contents :
        LET item_id == _generate_id(content) IN
        /\ NotesShort(item_id)
        /\ items' = reject(items, item_id, <<"operator decision">>)
        /\ q_op' = QCall("reject", item_id, <<>>,
                         item_id \in DOMAIN items, {})
        /\ UNCHANGED <<now, q_srcs, q_expired, cbvars, cbobs, recvars,
                   schedvars,
                   cycvars,
                   utilvars>>

\* get_pending() (quarantine_system.py:187-190): _expire_old_items, then
\* the items left Pending are returned
GetPending ==
    /\ items' = _expire_old_items(items, now)
    /\ q_op' = QCall("get_pending", "", <<>>, TRUE,
                     {id \in DOMAIN items' :
                         items'[id].status = QuarantineStatus.PENDING})
    /\ q_expired' = q_expired \cup
                    {id \in DOMAIN items : /\ items[id].status # QuarantineStatus.EXPIRED
                                           /\ items'[id].status = QuarantineStatus.EXPIRED}
    /\ UNCHANGED <<now, q_srcs, cbvars, cbobs, recvars,
                   schedvars,
                   cycvars,
                   utilvars>>

\* Passage of time between two quarantine calls
QTick ==
    \E dt \in {21600} :   \* time passes in steps of six hours
        /\ now + dt <= MaxTimeQ
        /\ now' = now + dt
        /\ q_op' = [q_op EXCEPT !.fresh = FALSE]
        /\ UNCHANGED <<items, q_srcs, q_expired, cbvars, cbobs, recvars,
                   schedvars,
                   cycvars,
                   utilvars>>

----------------------------------------------------------------------------
\* Escalation scheduler: Heartbeat.beat (src/src/heartbeat.py) and the
\* continuous loop of AgentMedic.run (src/src/main.py)
\*
\* One iteration of the loop is one step: the clock is read once per
\* iteration and the only time that passes is the sleep that ends it.  The
\* counters that no branch reads (beat_count, total_alerts, consecutive_*,
\* total_gemini_calls, total_claude_wakes) are left out.

MaxTimeSched == 2100     \* the scheduler clock stops advancing here
QuietUntil == 1740       \* every Tier0 check passes before this time

\* Intervals (config.py:17-20) and config.stable_threshold_minutes (config.py:55)
Intervals == [DEFAULT |-> 600, INCIDENT |-> 120, STABLE |-> 1800]
stable_threshold_minutes == 30

\* Heartbeat.__init__ (heartbeat.py:68-93), create_default_heartbeat (line 284)
interval == 30
min_seconds_between_ai_calls == 300
min_seconds_between_gemini == 120

\* time.sleep(30) of the exception handler (main.py:281)
ExceptionPause == 30

\* What one Tier1 request can come to (gemini_bridge.py:21-117):
\*   exception        - analyze_health_data raises
\*   error_status     - analyze_with_gemini returns None (no key, HTTP error,
\*                      request exception): the fallback dict of lines 111-117
\*   unparseable      - the text is not JSON: the dict of lines 102-108
\*   answer_escalate  - JSON with needs_claude true
\*   answer_action    - JSON with needs_claude false, action escalate_to_claude
\*   answer_ok        - JSON with needs_claude false, action none
Tier1Outcomes == {"exception", "error_status", "unparseable",
                  "answer_escalate", "answer_action", "answer_ok"}

\* analyze_health_data (gemini_bridge.py:68-117), for the outcomes that
\* return a dict
analyze_health_data(o) ==
    CASE o = "error_status"    -> [needs_claude |-> TRUE, action |-> "escalate_to_claude"]
      [] o = "unparseable"     -> [needs_claude |-> FALSE, action |-> "monitor"]
      [] o = "answer_escalate" -> [needs_claude |-> TRUE, action |-> "escalate_to_claude"]
      [] o = "answer_action"   -> [needs_claude |-> FALSE, action |-> "escalate_to_claude"]
      [] OTHER                 -> [needs_claude |-> FALSE, action |-> "none"]

\* Heartbeat._gemini_call_allowed (heartbeat.py:178-183)
_gemini_call_allowed(last_call, t) ==
    IF last_call = None THEN TRUE
    ELSE (t - last_call[1]) >= min_seconds_between_gemini

\* Heartbeat._claude_call_allowed (heartbeat.py:185-190)
_claude_call_allowed(last_call, t) ==
    IF last_call = None THEN TRUE
    ELSE (t - last_call[1]) >= min_seconds_between_ai_calls

\* Heartbeat._ask_gemini (heartbeat.py:192-226): the analysis it returns
\* (None or <<dict>>) and whether it got past the import, which is where the
\* call time is stored and the request is sent
_ask_gemini(installed, o) ==
    IF ~installed
    THEN [analysis |-> None, sent |-> FALSE]
    ELSE IF o = "exception"
         THEN [analysis |-> None, sent |-> TRUE]
         ELSE [analysis |-> <<analyze_health_data(o)>>, sent |-> TRUE]

\* HeartbeatResult.needs_claude (heartbeat.py:49-54)
needs_claude(gemini_analysis) ==
    IF gemini_analysis # None THEN gemini_analysis[1].needs_claude ELSE FALSE

\* Heartbeat.beat (heartbeat.py:99-170), steps 4-6, at time t with the
\* checks' verdict `healthy` and the Tier1 outcome o: the new call times and
\* what the beat did
beat(healthy, installed, o, gemini_time, ai_time, t) ==
    LET needs_ai == ~healthy
        window_open == _gemini_call_allowed(gemini_time, t)
        asked == needs_ai /\ window_open
        ask == IF asked THEN _ask_gemini(installed, o)
               ELSE [analysis |-> None, sent |-> FALSE]
        gemini_time2 == IF ask.sent THEN <<t>> ELSE gemini_time
        escalate == needs_claude(ask.analysis)
        woke == escalate /\ _claude_call_allowed(ai_time, t)
    IN  [last_gemini_call_time |-> gemini_time2,
         last_ai_call_time |-> IF woke THEN <<t>> ELSE ai_time,
         window_open |-> window_open,
         asked |-> asked,
         sent |-> ask.sent,
         escalate |-> escalate,
         woke |-> woke]

\* AgentMedic.run_gemini_check (main.py:141-200): its return value
run_gemini_check(installed, o) ==
    IF ~installed THEN TRUE
    ELSE IF o = "exception" THEN TRUE
    ELSE LET analysis == analyze_health_data(o) IN
         analysis.needs_claude \/ analysis.action = "escalate_to_claude"

\* AgentMedic._calculate_interval (main.py:66-82): the interval it returns
\* and the last_healthy_time it leaves
_calculate_interval(incidents, healthy_time, t) ==
    IF incidents
    THEN [interval |-> Intervals.INCIDENT, last_healthy_time |-> None]
    ELSE LET since == IF healthy_time = None THEN <<t>> ELSE healthy_time IN
         [interval |-> IF (t - since[1]) > stable_threshold_minutes * 60
                       THEN Intervals.STABLE
                       ELSE Intervals.DEFAULT,
          last_healthy_time |-> since]

\* Where the loop goes after something was raised inside the try block
\* (main.py:277-281)
MutExceptionBreaks(raised) ==
    IF raised \in {"keyboard_interrupt", "beat", "cycle"} THEN "stopped" ELSE "loop"

after_raise(raised) ==
    IF raised = "keyboard_interrupt" THEN "stopped" ELSE "loop"

\* The last two entries of a log of times
Push2(log, t) == IF Len(log) < 2 THEN Append(log, t) ELSE <<log[2], t>>

NoTick ==
    [at |-> 0, healthy |-> TRUE, window_open |-> TRUE, asked |-> FALSE,
     o1 |-> "not_called", beat_escalate |-> FALSE, woke |-> FALSE,
     deep |-> FALSE, o2 |-> "not_called", deep_escalate |-> FALSE,
     cycle |-> FALSE, raised |-> "none", prev_raised |-> "none",
     slept |-> 0, signalled |-> FALSE]

\* AgentMedic.__init__ and Heartbeat.__init__ (main.py:46-58,
\* heartbeat.py:68-93); whether gemini_bridge can be imported is fixed for
\* the run
SchedInit ==
    /\ running = FALSE
    /\ sched_pc = "created"
    /\ last_healthy_time = None
    /\ gemini_check_count = 0
    /\ last_gemini_call_time = None
    /\ last_ai_call_time = None
    /\ last_deep_check = 0
    /\ deep_check_interval = Intervals.STABLE
    /\ tick = NoTick
    /\ tier1_times = <<>>
    /\ cycle_starts = <<>>
    /\ alert_seen = FALSE
    /\ stop_seen = FALSE

\* AgentMedic.run up to the loop (main.py:213-243)
RunStart ==
    /\ sched_pc = "created"
    /\ sched_pc' = "loop"
    /\ running' = TRUE
    /\ last_deep_check' = now
    /\ deep_check_interval' = Intervals.STABLE
    /\ UNCHANGED <<now, bridge_installed, last_healthy_time, gemini_check_count,
                   last_gemini_call_time, last_ai_call_time, tick, tier1_times,
                   cycle_starts, alert_seen, stop_seen,
                   cbvars, cbobs, recvars, qvars,
                   cycvars,
                   utilvars>>

\* main.py:245  `while self.running`: the only place that reads the flag
MutLoopIgnoresFlag(flag) == TRUE
loop_continues(flag) == flag

\* One iteration of the while loop (main.py:245-281), up to the call of
\* run_cycle when the deep check escalates, to its end otherwise
Tick ==
    /\ sched_pc = "loop"
    /\ loop_continues(running)
    /\ now + interval <= MaxTimeSched
    /\ \E healthy \in (IF now < QuietUntil THEN {TRUE} ELSE BOOLEAN) :
       LET window_open == _gemini_call_allowed(last_gemini_call_time, now)
           needs_deep_check == (now - last_deep_check) >= deep_check_interval
       IN
       \E o1 \in (IF ~healthy /\ window_open /\ bridge_installed
                  THEN Tier1Outcomes ELSE {"not_called"}),
          beat_raises \in BOOLEAN :
       LET b == beat(healthy, bridge_installed, o1, last_gemini_call_time,
                     last_ai_call_time, now)
           deep == ~beat_raises /\ needs_deep_check
       IN
       \E o2 \in (IF deep /\ bridge_installed THEN Tier1Outcomes
                  ELSE {"not_called"}) :
       LET escalated == deep /\ run_gemini_check(bridge_installed, o2) IN
       \E interrupted \in (IF beat_raises \/ escalated THEN {FALSE}
                           ELSE BOOLEAN) :
       LET raised == IF beat_raises THEN "beat"
                     ELSE IF interrupted THEN "keyboard_interrupt"
                     ELSE "none"
           slept == IF escalated \/ raised = "keyboard_interrupt" THEN 0
                    ELSE IF raised = "none" THEN interval
                    ELSE ExceptionPause
           t1a == IF b.sent THEN Push2(tier1_times, now) ELSE tier1_times
           t1b == IF deep /\ bridge_installed THEN Push2(t1a, now) ELSE t1a
       IN
       /\ last_gemini_call_time' = b.last_gemini_call_time
       /\ last_ai_call_time' = b.last_ai_call_time
       /\ gemini_check_count' = IF deep THEN gemini_check_count + 1
                                ELSE gemini_check_count
       /\ last_deep_check' = IF deep THEN now ELSE last_deep_check
       /\ cycle_count' = IF escalated THEN cycle_count + 1 ELSE cycle_count
       /\ deep_check_interval' =
             IF ~deep \/ escalated THEN deep_check_interval
             ELSE Intervals.STABLE
       /\ sched_pc' = IF escalated THEN "cycle" ELSE after_raise(raised)
       /\ now' = now + slept
       /\ tick' = [at |-> now, healthy |-> healthy,
                   window_open |-> b.window_open, asked |-> b.asked,
                   o1 |-> o1, beat_escalate |-> b.escalate, woke |-> b.woke,
                   deep |-> deep, o2 |-> o2, deep_escalate |-> escalated,
                   cycle |-> escalated, raised |-> raised,
                   prev_raised |-> tick.raised, slept |-> slept,
                   signalled |-> FALSE]
       /\ tier1_times' = t1b
       /\ cycle_starts' = IF escalated THEN Push2(cycle_starts, now)
                          ELSE cycle_starts
       /\ alert_seen' = (alert_seen \/ ~healthy)
       /\ stop_seen' = (stop_seen \/ interrupted)
    /\ UNCHANGED <<running, bridge_installed, last_healthy_time, cbvars, cbobs,
                   qvars, agent_cfg, restart_attempts, current_rpc_index,
                   incident_counter, cyc_pc, cyc_left, cyc_stage, step,
                   all_attempts,
                   cycvars,
                   utilvars>>

\* The rest of an iteration whose deep check escalated (main.py:261-281):
\* run_cycle returns or raises, the next interval is chosen, the loop sleeps
CycleReturn ==
    /\ sched_pc = "cycle"
    /\ \E incidents \in BOOLEAN, cycle_raises \in BOOLEAN :
       \E interrupted \in (IF cycle_raises THEN {FALSE} ELSE BOOLEAN) :
       LET raised == IF cycle_raises THEN "cycle"
                     ELSE IF interrupted THEN "keyboard_interrupt"
                     ELSE "none"
           ci == _calculate_interval(incidents, last_healthy_time, now)
           slept == IF raised = "none" THEN interval
                    ELSE IF raised = "keyboard_interrupt" THEN 0
                    ELSE ExceptionPause
       IN
       /\ last_ai_call_time' = IF cycle_raises THEN last_ai_call_time
                               ELSE <<now>>
       /\ deep_check_interval' = IF cycle_raises THEN deep_check_interval
                                 ELSE ci.interval
       /\ last_healthy_time' = IF cycle_raises THEN last_healthy_time
                               ELSE ci.last_healthy_time
       /\ sched_pc' = after_raise(raised)
       /\ now' = now + slept
       /\ tick' = [tick EXCEPT !.raised = raised, !.slept = slept]
       /\ stop_seen' = (stop_seen \/ interrupted)
    /\ UNCHANGED <<running, bridge_installed, gemini_check_count,
                   last_gemini_call_time, last_deep_check, tier1_times,
                   cycle_starts, alert_seen, cbvars, cbobs, recvars, qvars,
                   cycvars,
                   utilvars>>

\* AgentMedic._handle_shutdown (main.py:60-64), run by SIGINT or SIGTERM
\* between two bytecodes of the main thread: while run_cycle is in progress,
\* or during the rest of an iteration, whose steps do not read the flag
MutShutdownRunsCycle ==
    /\ sched_pc \in {"loop", "cycle"}
    /\ running
    /\ running' = FALSE
    /\ stop_seen' = TRUE
    /\ tick' = [tick EXCEPT !.signalled = (sched_pc = "cycle")]
    /\ cycle_count' = cycle_count + 1
    /\ UNCHANGED <<now, bridge_installed, sched_pc, last_healthy_time,
                   gemini_check_count, last_gemini_call_time,
                   last_ai_call_time, last_deep_check, deep_check_interval,
                   tier1_times, cycle_starts, alert_seen,
                   cbvars, cbobs, qvars, agent_cfg, restart_attempts,
                   current_rpc_index, incident_counter, cyc_pc, cyc_left,
                   cyc_stage, step, all_attempts,
                   cycvars,
                   utilvars>>
HandleShutdown ==
    /\ sched_pc \in {"loop", "cycle"}
    /\ running
    /\ running' = FALSE
    /\ stop_seen' = TRUE
    /\ tick' = [tick EXCEPT !.signalled = (sched_pc = "cycle")]
    /\ UNCHANGED <<now, bridge_installed, sched_pc, last_healthy_time,
                   gemini_check_count, last_gemini_call_time,
                   last_ai_call_time, last_deep_check, deep_check_interval,
                   tier1_times, cycle_starts, alert_seen,
                   cbvars, cbobs, recvars, qvars,
                   cycvars,
                   utilvars>>

\* The loop condition found false (main.py:245, 283)
LoopExit ==
    /\ sched_pc = "loop"
    /\ ~loop_continues(running)
    /\ sched_pc' = "stopped"
    /\ UNCHANGED <<now, bridge_installed, running, last_healthy_time,
                   gemini_check_count, last_gemini_call_time,
                   last_ai_call_time, last_deep_check, deep_check_interval,
                   tick, tier1_times, cycle_starts, alert_seen, stop_seen,
                   cbvars, cbobs, recvars, qvars,
                   cycvars,
                   utilvars>>

----------------------------------------------------------------------------
\* Observer and Diagnoser (observer.py, diagnoser.py)
\*
\* Texts are sequences of words; a word stands for the characters it is
\* written with, so `x in text` is membership among the words and lower()
\* maps each word.  Optional values are None (<<>>) or the value itself.

\* AgentStatus (config.py:22-27) and IncidentSeverity (config.py:29-32)
AgentStatus ==
    [HEALTHY |-> "healthy", DEGRADED |-> "degraded", FAILED |-> "failed",
     UNKNOWN |-> "unknown", RECOVERING |-> "recovering"]
IncidentSeverity ==
    [INFO |-> "info", WARNING |-> "warning", CRITICAL |-> "critical"]

\* The registries a full cycle may start with: one registered agent, each of
\* its three probes configured or not (config.py:34-45).
ProbedRegistries ==
    { [a \in {RegisteredAgent} |->
          AgentConfig(a, proc, "restart-svc-a", MaxRestartsCfg)
          @@ [health_endpoint |-> url, solana_address |-> addr]] :
        proc \in {"svc-a.service", NoName},
        url \in {"http://svc-a/health", NoName},
        addr \in {"addr-A", NoName} }

\* What curl may do when check_health_endpoint runs it: raise (the name of
\* the exception), or print an HTTP code after `latency` milliseconds
\* (code 0: the output was not a number).
CurlOutcomes ==
    { [raised |-> "", code |-> 200, latency |-> l] : l \in {5000, 5001} }
    \cup { [raised |-> "", code |-> 503, latency |-> 6000],
           [raised |-> "TimeoutExpired", code |-> 0, latency |-> 0] }

\* observer.check_health_endpoint (observer.py:87-109)
check_health_endpoint(curl) ==
    IF curl.raised = "TimeoutExpired"
    THEN [healthy |-> FALSE, status_code |-> None, latency_ms |-> None,
          error |-> <<"Timeout">>]
    ELSE IF curl.raised # ""
    THEN [healthy |-> FALSE, status_code |-> None, latency_ms |-> None,
          error |-> <<curl.raised>>]
    ELSE [healthy |-> (200 <= curl.code /\ curl.code < 300),
          status_code |-> <<curl.code>>, latency_ms |-> <<curl.latency>>,
          error |-> None]

\* observer.check_agent (observer.py:142-195): the HealthCheckResult for an
\* agent, given what its probes answer: whether the process runs, what curl
\* does, and how many of the recent transactions failed.
check_agent(agent, is_running, curl, failed) ==
    LET he == check_health_endpoint(curl)
        names == (IF agent.process_name # NoName THEN {"process"} ELSE {})
                 \cup (IF agent.health_endpoint # NoName
                       THEN {"health_endpoint"} ELSE {})
                 \cup (IF agent.solana_address # NoName
                       THEN {"transactions"} ELSE {})
        checks == [k \in names |->
                     IF k = "process" THEN [running |-> is_running]
                     ELSE IF k = "health_endpoint" THEN he
                     ELSE [failed |-> failed]]
        errors ==
            (IF "process" \in names /\ ~is_running
             THEN << <<"Process", agent.process_name, "not running">> >>
             ELSE <<>>)
            \o (IF "health_endpoint" \in names /\ ~he.healthy
                THEN << <<"Health endpoint unhealthy:">>
                        \o (IF he.error # None THEN he.error ELSE <<"status_code">>) >>
                ELSE <<>>)
            \o (IF "transactions" \in names /\ failed > 0
                THEN << <<"failed transactions detected">> >>
                ELSE <<>>)
        status ==
            IF names = {} THEN AgentStatus.UNKNOWN
            ELSE IF errors # <<>>
            THEN IF \E i \in 1..Len(errors) :
                       \E j \in 1..Len(errors[i]) : errors[i][j] = "not running"
                 THEN AgentStatus.FAILED
                 ELSE AgentStatus.DEGRADED
            ELSE AgentStatus.HEALTHY
    IN [agent_name |-> agent.name, status |-> status, checks |-> checks,
        errors |-> errors]

\* What the getSlot call may return to check_rpc_health: a result after
\* `latency` milliseconds, or a JSON-RPC error with a message.
RpcResponses ==
    { [error |-> None, latency |-> l] : l \in {2000, 2001} }
    \cup { [error |-> m, latency |-> 0] :
             m \in { <<"429", "Too", "Many", "Requests">>,
                     <<"Rate", "limit", "exceeded">>,
                     <<"Connection", "refused">> } }

\* solana_rpc.check_rpc_health (solana_rpc.py:98-116)
check_rpc_health(response) ==
    IF response.error # None
    THEN [healthy |-> FALSE, latency_ms |-> None, error |-> response.error]
    ELSE [healthy |-> TRUE, latency_ms |-> <<response.latency>>, error |-> None]

\* observer.get_system_status (observer.py:198-229): the snapshots the
\* Observer may return for a registry
SystemStatuses(cfg) ==
    { [agents |-> [a \in DOMAIN cfg |->
                     check_agent(cfg[a], probe.is_running, probe.curl, probe.failed)],
       solana_rpc |-> check_rpc_health(response)] :
        probe \in [is_running : BOOLEAN, curl : CurlOutcomes, failed : {0, 2}],
        response \in RpcResponses }

\* str.lower() on the words the error texts are made of
MutLowerKeepsCase(text) == text
lower(text) ==
    [i \in 1..Len(text) |->
        CASE text[i] = "Rate" -> "rate"
          [] text[i] = "Too" -> "too"
          [] text[i] = "Many" -> "many"
          [] text[i] = "Requests" -> "requests"
          [] text[i] = "Connection" -> "connection"
          [] text[i] = "Unknown" -> "unknown"
          [] OTHER -> text[i]]

\* Diagnoser.diagnose_agent (diagnoser.py:54-149): the incidents of one
\* agent, numbered from counter + 1
diagnose_agent(result, counter) ==
    IF result.status = AgentStatus.HEALTHY THEN <<>>
    ELSE
    LET checks == result.checks
        crash ==
            IF "process" \in DOMAIN checks /\ ~checks["process"].running
            THEN << [type |-> IncidentType.PROCESS_CRASH,
                     severity |-> IncidentSeverity.CRITICAL, rh |-> FALSE] >>
            ELSE <<>>
        endpoint ==
            IF "health_endpoint" \in DOMAIN checks
            THEN LET he == checks["health_endpoint"]
                 IN IF ~he.healthy
                    THEN LET incident_type ==
                                 IF he.error = <<"Timeout">>
                                 THEN IncidentType.PROCESS_HANG
                                 ELSE IncidentType.HEALTH_ENDPOINT_FAILURE
                         IN << [type |-> incident_type,
                                severity |->
                                    IF incident_type = IncidentType.HIGH_LATENCY
                                    THEN IncidentSeverity.WARNING
                                    ELSE IncidentSeverity.CRITICAL,
                                rh |-> FALSE] >>
                    ELSE IF he.latency_ms[1] > 5000
                    THEN << [type |-> IncidentType.HIGH_LATENCY,
                             severity |-> IncidentSeverity.WARNING, rh |-> FALSE] >>
                    ELSE <<>>
            ELSE <<>>
        tx ==
            IF "transactions" \in DOMAIN checks /\ checks["transactions"].failed > 0
            THEN << [type |-> IncidentType.TRANSACTION_FAILURES,
                     severity |-> IncidentSeverity.WARNING, rh |-> TRUE] >>
            ELSE <<>>
        found == crash \o endpoint \o tx
    IN [i \in 1..Len(found) |->
          Incident(counter + i, result.agent_name, found[i].type, found[i].rh)
          @@ [severity |-> found[i].severity]]

\* Diagnoser.diagnose_rpc (diagnoser.py:151-208)
MutRpcThresholdInclusive(rpc_health, counter) ==
    IF ~rpc_health.healthy
    THEN LET error_msg == IF rpc_health.error # None THEN rpc_health.error
                          ELSE <<"Unknown", "error">>
             limited == (\E i \in 1..Len(error_msg) : error_msg[i] = "429")
                        \/ (\E i \in 1..Len(error_msg) : lower(error_msg)[i] = "rate")
         IN << Incident(counter + 1, NoName,
                        IF limited THEN IncidentType.RPC_RATE_LIMITED
                        ELSE IncidentType.RPC_UNAVAILABLE, FALSE)
               @@ [severity |-> IncidentSeverity.CRITICAL] >>
    ELSE IF rpc_health.latency_ms # None /\ rpc_health.latency_ms[1] # 0
            /\ rpc_health.latency_ms[1] >= 2000
    THEN << Incident(counter + 1, NoName, IncidentType.HIGH_LATENCY, FALSE)
            @@ [severity |-> IncidentSeverity.WARNING] >>
    ELSE <<>>
diagnose_rpc(rpc_health, counter) ==
    IF ~rpc_health.healthy
    THEN LET error_msg == IF rpc_health.error # None THEN rpc_health.error
                          ELSE <<"Unknown", "error">>
             limited == (\E i \in 1..Len(error_msg) : error_msg[i] = "429")
                        \/ (\E i \in 1..Len(error_msg) : lower(error_msg)[i] = "rate")
         IN << Incident(counter + 1, NoName,
                        IF limited THEN IncidentType.RPC_RATE_LIMITED
                        ELSE IncidentType.RPC_UNAVAILABLE, FALSE)
               @@ [severity |-> IncidentSeverity.CRITICAL] >>
    ELSE IF rpc_health.latency_ms # None /\ rpc_health.latency_ms[1] # 0
            /\ rpc_health.latency_ms[1] > 2000
    THEN << Incident(counter + 1, NoName, IncidentType.HIGH_LATENCY, FALSE)
            @@ [severity |-> IncidentSeverity.WARNING] >>
    ELSE <<>>

\* Diagnoser.analyze (diagnoser.py:210-221): every agent in the order of the
\* agents dict, then the dependency
RECURSIVE analyze_agents(_, _, _)
analyze_agents(status, order, counter) ==
    IF order = <<>> THEN <<>>
    ELSE LET first == diagnose_agent(status.agents[Head(order)], counter)
         IN first \o analyze_agents(status, Tail(order), counter + Len(first))

analyze(status, order, counter) ==
    LET all_incidents == analyze_agents(status, order, counter)
    IN all_incidents
       \o diagnose_rpc(status.solana_rpc, counter + Len(all_incidents))

----------------------------------------------------------------------------
\* Verifier (verifier.py)

\* What the probes may answer when the Verifier re-checks: for a subject
\* whether the process runs, what curl does and how many recent transactions
\* failed; for the dependency what the RPC endpoint returns.
\* The probes a re-check for `action` calls: those of the subject for a
\* restart, that of the dependency otherwise (verifier.py:61-68)
ProbesFor(action) ==
    IF action = RecoveryAction.RESTART_PROCESS
    THEN [is_running : BOOLEAN,
          curl : {[raised |-> "", code |-> 200, latency |-> 120],
                  [raised |-> "", code |-> 503, latency |-> 6000]},
          failed : {0, 2}]
    ELSE [response : {[error |-> None, latency |-> 120],
                      [error |-> <<"Connection", "refused">>, latency |-> 0]}]

\* verifier.py:40  `time.sleep(self.verification_delay)`: when verify goes on
MutNoSettle(t) == t
after_settle(t) == t + verification_delay

\* Verifier._verify_restart (verifier.py:77-115); `calls` lists the probes
\* called, in order, each with the time of the call
_verify_restart(plan, cfg, probe, at) ==
    LET known == plan.agent_name # NoName /\ is_registered(cfg, plan.agent_name)
        with_process == known /\ cfg[plan.agent_name].process_name # NoName
        with_endpoint == known /\ cfg[plan.agent_name].health_endpoint # NoName
        process_ok == probe.is_running
        health_ok ==
            check_agent(cfg[plan.agent_name], probe.is_running, probe.curl,
                        probe.failed).status = AgentStatus.HEALTHY
        checks_passed == (IF with_process /\ process_ok THEN 1 ELSE 0)
                         + (IF with_endpoint /\ health_ok THEN 1 ELSE 0)
        checks_failed == (IF with_process /\ ~process_ok THEN 1 ELSE 0)
                         + (IF with_endpoint /\ ~health_ok THEN 1 ELSE 0)
    IN [incident_id |-> plan.incident_id,
        verified |-> (checks_passed > 0 /\ checks_failed = 0),
        checks_passed |-> checks_passed,
        checks_failed |-> checks_failed,
        calls |-> (IF with_process
                   THEN <<[probe |-> "check_process_running", at |-> at]>>
                   ELSE <<>>)
                  \o (IF with_endpoint
                      THEN <<[probe |-> "check_agent", at |-> at]>>
                      ELSE <<>>),
        returned_at |-> at]

\* Verifier._verify_rpc_switch (verifier.py:117-135) and
\* Verifier._verify_cooldown (verifier.py:137-153): one dependency probe,
\* named by `call`
_verify_rpc(plan, call, probe, at) ==
    LET health == check_rpc_health(probe.response)
    IN [incident_id |-> plan.incident_id,
        verified |-> health.healthy,
        checks_passed |-> IF health.healthy THEN 1 ELSE 0,
        checks_failed |-> IF health.healthy THEN 0 ELSE 1,
        calls |-> <<[probe |-> call, at |-> at]>>,
        returned_at |-> at]

\* Verifier.verify (verifier.py:36-75), called at time t
verify(plan, result, cfg, probe, t) ==
    LET at == after_settle(t)
    IN IF result.status \in {RecoveryStatus.SKIPPED, RecoveryStatus.FAILED}
       THEN [incident_id |-> plan.incident_id, verified |-> FALSE,
             checks_passed |-> 0, checks_failed |-> 0, calls |-> <<>>,
             returned_at |-> at]
       ELSE IF plan.action = RecoveryAction.RESTART_PROCESS
       THEN _verify_restart(plan, cfg, probe, at)
       ELSE IF plan.action = RecoveryAction.SWITCH_RPC
       THEN _verify_rpc(plan, "check_rpc_health", probe, at)
       ELSE IF plan.action = RecoveryAction.APPLY_COOLDOWN
       THEN _verify_rpc(plan, "devnet_health", probe, at)
       ELSE [incident_id |-> plan.incident_id,
             verified |-> (result.status = RecoveryStatus.SUCCESS),
             checks_passed |-> IF result.status = RecoveryStatus.SUCCESS THEN 1 ELSE 0,
             checks_failed |-> IF result.status = RecoveryStatus.SUCCESS THEN 0 ELSE 1,
             calls |-> <<>>,
             returned_at |-> at]

----------------------------------------------------------------------------
\* One full cycle, from the Observer's snapshot to the return of run_cycle

MaxFullCycles == 2     \* run_cycle() is not called beyond this count
MaxCycleStart == 0     \* run_cycle() is not called after this time
MaxTimeVer == 10       \* direct confirm() calls return by this time

\* No iteration of the recovery loop has run; no confirm() was called
NoHandled ==
    [incident |-> NoStep.incident, plan |-> NoStep.plan, executed |-> FALSE,
     result |-> SkippedResult, confirmed |-> FALSE,
     verification |-> verify(NoStep.plan, SkippedResult, <<>>, <<>>, 0),
     confirm_at |-> 0, probe |-> <<>>]

CycInit ==
    /\ snapshot = <<>>
    /\ diagnosed = <<>>
    /\ fc_pc = "idle"
    /\ fc_next = 0
    /\ handled = NoHandled
    /\ sink = <<>>
    /\ produced = {}

\* AgentState (state_machine.py:12-19)
AgentState ==
    [UNKNOWN |-> "unknown", STARTING |-> "starting", HEALTHY |-> "healthy",
     DEGRADED |-> "degraded", RECOVERING |-> "recovering", FAILED |-> "failed",
     STOPPED |-> "stopped"]

\* AgentMedic.__init__ (no cycle yet) and the constructors of the utility
\* objects: MemoryPersistence.__init__ (memory_persistence.py:75-87),
\* StateMachine.__init__ (state_machine.py:36-40), RateLimiter.__init__
\* (rate_limiter.py:21-24) with RateLimitConfig(tokens_per_second=2,
\* max_tokens=4)
UtilInit ==
    /\ cycle_log = <<>>
    /\ version = 0
    /\ snapshots = <<>>
    /\ mem_op = [name |-> "__init__", arg |-> None, ret |-> None,
                 raised |-> FALSE, calls |-> 0, created |-> <<>>]
    /\ sm_state = AgentState.UNKNOWN
    /\ history = <<>>
    /\ sm_op = [name |-> "__init__", new_state |-> AgentState.UNKNOWN,
                ret |-> FALSE, pre_state |-> AgentState.UNKNOWN,
                pre_history |-> <<>>]
    /\ config = [tokens_per_second |-> 2, max_tokens |-> 4]
    /\ tokens = 4
    /\ last_update = 0
    /\ bucket_op = [name |-> "__init__", n |-> 0, at |-> 0, ret |-> FALSE,
                    pre_tokens |-> 4, pre_update |-> 0, slept |-> 0]
    /\ retry_op = [name |-> "decorated"]

\* AgentMedic.run_cycle, lines 101-118: count the cycle, observe, diagnose,
\* log the check and every incident.
RunCycleBegin ==
    /\ fc_pc = "idle"
    /\ cycle_count < MaxFullCycles
    /\ now <= MaxCycleStart
    /\ cycle_count' = cycle_count + 1
    /\ \E status \in SystemStatuses(agent_cfg) :
          LET incidents == analyze(status, <<RegisteredAgent>>, incident_counter)
          IN /\ snapshot' = status
             /\ diagnosed' = incidents
             /\ incident_counter' = incident_counter + Len(incidents)
             /\ sink' = <<[event |-> "log_check", id |-> 0]>>
                        \o [i \in 1..Len(incidents) |->
                              [event |-> "log_incident", id |-> incidents[i].id]]
    /\ fc_pc' = "recover"
    /\ fc_next' = 1
    /\ handled' = NoHandled
    /\ produced' = {}
    /\ UNCHANGED <<now, cbvars, cbobs, agent_cfg, restart_attempts,
                   current_rpc_index, cyc_pc, cyc_left, cyc_stage, step,
                   all_attempts, qvars, schedvars,
                   utilvars>>

\* AgentMedic.run_cycle, one iteration of the recovery loop (main.py:120-130)
RunCycleStep ==
    /\ fc_pc = "recover"
    /\ fc_next <= Len(diagnosed)
    /\ LET incident == diagnosed[fc_next]
           plan == plan_action(incident, agent_cfg, restart_attempts, now)
           pruned == plan_action_attempts(incident, agent_cfg, restart_attempts, now)
           run == cycle_executes(plan)
       IN \E outs \in (IF run THEN RestartOutcomes ELSE {<<>>}),
             probe \in (IF run THEN ProbesFor(plan.action) ELSE {<<>>}) :
             LET result == IF run THEN execute(plan, outs) ELSE SkippedResult
                 t_done == now + result.slept
                 verification ==
                     IF run THEN verify(plan, result, agent_cfg, probe, t_done)
                     ELSE NoHandled.verification
             IN /\ (run => verification.returned_at <= MaxTimeRec)
                /\ restart_attempts' =
                      IF result.recorded
                      THEN _record_restart(pruned, plan.agent_name, t_done)
                      ELSE pruned
                /\ current_rpc_index' =
                      (current_rpc_index + result.rpc_step) % NumRpcEndpoints
                /\ handled' = [incident |-> incident, plan |-> plan,
                               executed |-> run, result |-> result,
                               confirmed |-> run, verification |-> verification,
                               confirm_at |-> IF run THEN t_done ELSE 0,
                               probe |-> probe]
                /\ produced' =
                      IF run
                      THEN produced \cup {[kind |-> "RecoveryResult", id |-> incident.id],
                                          [kind |-> "VerificationResult", id |-> incident.id]}
                      ELSE produced
                /\ now' = IF run THEN verification.returned_at ELSE now
    /\ fc_next' = fc_next + 1
    /\ UNCHANGED <<cbvars, cbobs, agent_cfg, incident_counter, cycle_count,
                   cyc_pc, cyc_left, cyc_stage, step, all_attempts,
                   snapshot, diagnosed, fc_pc, sink, qvars, schedvars,
                   utilvars>>

\* AgentMedic.run_cycle, lines 132-139: print the human alerts and return
RunCycleReturn ==
    /\ fc_pc = "recover"
    /\ fc_next > Len(diagnosed)
    /\ fc_pc' = "idle"
    /\ fc_next' = 0
    /\ snapshot' = <<>>
    /\ diagnosed' = <<>>
    /\ handled' = NoHandled
    /\ sink' = <<>>
    /\ produced' = {}
    /\ UNCHANGED <<now, cbvars, cbobs, recvars, qvars, schedvars,
                   utilvars>>

\* The plans and results verifier.confirm (verifier.py:159-161) may be given;
\* execute returns no other status than these three (recoverer.py:171-227)
ConfirmInputs ==
    UNION { { [plan |-> RecoveryPlan(1, action, agent, NoParams, FALSE, ""),
               result |-> [SkippedResult EXCEPT !.status = st],
               probe |-> probe] :
                agent \in {RegisteredAgent, "svc-unregistered", NoName},
                st \in {RecoveryStatus.SUCCESS, RecoveryStatus.FAILED,
                        RecoveryStatus.SKIPPED},
                probe \in ProbesFor(action) } :
            action \in { RecoveryAction[k] : k \in DOMAIN RecoveryAction } }

\* A direct call of verifier.confirm(plan, result)
ConfirmCall ==
    /\ fc_pc = "idle"
    /\ now + verification_delay <= MaxTimeVer
    /\ \E arg \in ConfirmInputs :
          LET verification == verify(arg.plan, arg.result, agent_cfg, arg.probe, now)
          IN /\ handled' = [NoHandled EXCEPT
                              !.plan = arg.plan, !.result = arg.result,
                              !.confirmed = TRUE,
                              !.verification = verification,
                              !.confirm_at = now, !.probe = arg.probe]
             /\ now' = verification.returned_at
    /\ UNCHANGED <<cbvars, cbobs, recvars, qvars, schedvars,
                   snapshot, diagnosed, fc_pc, fc_next, sink, produced,
                   utilvars>>

----------------------------------------------------------------------------
\* The interval state of the continuous loop over several full cycles

MaxIntCycles == 3        \* full cycles of one run

\* An iteration of the while loop (main.py:245-275) whose deep check is due
\* `gap` seconds after the previous deep check, escalates, and whose
\* run_cycle returns: the next interval is chosen, the loop sleeps.  The
\* iterations in between, whose deep check is not due, change nothing that
\* _calculate_interval reads.
EscalatedIteration ==
    /\ sched_pc = "loop"
    /\ running
    /\ cycle_count < MaxIntCycles
    /\ \E gap \in {120, 600, 1800, 1830}, incidents \in BOOLEAN :
       LET t == last_deep_check + gap
           ci == _calculate_interval(incidents, last_healthy_time, t)
       IN
       /\ t >= now
       /\ (t - last_deep_check) >= deep_check_interval
       /\ gemini_check_count' = gemini_check_count + 1
       /\ last_deep_check' = t
       /\ cycle_count' = cycle_count + 1
       /\ last_ai_call_time' = <<t>>
       /\ deep_check_interval' = ci.interval
       /\ last_healthy_time' = ci.last_healthy_time
       /\ cycle_starts' = Push2(cycle_starts, t)
       /\ cycle_log' = Append(cycle_log, [at |-> t, incidents |-> incidents])
       /\ now' = t + interval
    /\ UNCHANGED <<running, bridge_installed, last_gemini_call_time, sched_pc,
                   tick, tier1_times, alert_seen, stop_seen,
                   cbvars, cbobs, qvars, agent_cfg, restart_attempts,
                   current_rpc_index, incident_counter, cyc_pc, cyc_left,
                   cyc_stage, step, all_attempts, cycvars,
                   version, snapshots, mem_op, sm_state, history, sm_op,
                   config, tokens, last_update, bucket_op, retry_op>>

----------------------------------------------------------------------------
\* Memory snapshots (src/src/memory_persistence.py)

MaxSnapshotCalls == 3    \* create_snapshot calls on the manager

\* MemoryPersistence.create_snapshot (memory_persistence.py:109-123): the
\* version is counted first; the checksum is computed while the snapshot is
\* built, before it is appended.
MutVersionFromLength(ver, snaps, memory_data, t) ==
    IF ~memory_data.encodable
    THEN [version |-> ver + 1, snapshots |-> snaps, raised |-> TRUE, ret |-> None]
    ELSE LET s == [agent_id |-> "AgentMedic", timestamp |-> t,
                   version |-> Len(snaps) + 1, data |-> memory_data.payload,
                   checksum |-> <<"sha256", memory_data.payload>>,
                   storage_backend |-> "local", storage_ref |-> None]
         IN [version |-> ver + 1, snapshots |-> Append(snaps, s),
             raised |-> FALSE, ret |-> <<s>>]
create_snapshot(ver, snaps, memory_data, t) ==
    IF ~memory_data.encodable
    THEN [version |-> ver + 1, snapshots |-> snaps, raised |-> TRUE, ret |-> None]
    ELSE LET s == [agent_id |-> "AgentMedic", timestamp |-> t,
                   version |-> ver + 1, data |-> memory_data.payload,
                   checksum |-> <<"sha256", memory_data.payload>>,
                   storage_backend |-> "local", storage_ref |-> None]
         IN [version |-> ver + 1, snapshots |-> Append(snaps, s),
             raised |-> FALSE, ret |-> <<s>>]

\* MemoryPersistence.get_latest_snapshot (memory_persistence.py:228-232)
get_latest_snapshot(snaps) ==
    IF snaps = <<>> THEN None ELSE <<snaps[Len(snaps)]>>

\* MemoryPersistence.get_snapshot_by_version (memory_persistence.py:234-239):
\* the first snapshot of the list that carries the version
get_snapshot_by_version(snaps, v) ==
    LET hits == { i \in 1..Len(snaps) : snaps[i].version = v } IN
    IF hits = {} THEN None
    ELSE <<snaps[CHOOSE i \in hits : \A j \in hits : i <= j]>>

\* memory_data arguments: a payload, and whether json.dumps can encode it
\* (_compute_checksum, lines 89-92, raises TypeError when it cannot)
CreateSnapshot ==
    /\ mem_op.calls < MaxSnapshotCalls
    /\ \E memory_data \in [payload : {"a", "b"}, encodable : BOOLEAN] :
          LET r == create_snapshot(version, snapshots, memory_data, now) IN
          /\ version' = r.version
          /\ snapshots' = r.snapshots
          /\ mem_op' = [name |-> "create_snapshot", arg |-> <<memory_data>>,
                        ret |-> r.ret, raised |-> r.raised,
                        calls |-> mem_op.calls + 1,
                        created |-> mem_op.created \o r.ret]
    /\ UNCHANGED <<now, cbvars, cbobs, recvars, qvars, schedvars, cycvars,
                   cycle_log, sm_state, history, sm_op,
                   config, tokens, last_update, bucket_op, retry_op>>

GetLatestSnapshot ==
    /\ mem_op' = [mem_op EXCEPT !.name = "get_latest_snapshot", !.arg = None,
                                !.ret = get_latest_snapshot(snapshots),
                                !.raised = FALSE]
    /\ UNCHANGED <<now, cbvars, cbobs, recvars, qvars, schedvars, cycvars,
                   cycle_log, version, snapshots, sm_state, history, sm_op,
                   config, tokens, last_update, bucket_op, retry_op>>

GetSnapshotByVersion ==
    /\ \E v \in 0..(MaxSnapshotCalls + 1) :
          mem_op' = [mem_op EXCEPT !.name = "get_snapshot_by_version",
                                  !.arg = <<v>>,
                                  !.ret = get_snapshot_by_version(snapshots, v),
                                  !.raised = FALSE]
    /\ UNCHANGED <<now, cbvars, cbobs, recvars, qvars, schedvars, cycvars,
                   cycle_log, version, snapshots, sm_state, history, sm_op,
                   config, tokens, last_update, bucket_op, retry_op>>

----------------------------------------------------------------------------
\* Agent state machine (src/src/state_machine.py)

MaxTransitions == 4      \* transition() is not called on a longer history

\* VALID_TRANSITIONS (state_machine.py:22-30)
VALID_TRANSITIONS ==
    (AgentState.UNKNOWN :> <<AgentState.STARTING, AgentState.HEALTHY, AgentState.FAILED>>)
    @@ (AgentState.STARTING :> <<AgentState.HEALTHY, AgentState.FAILED>>)
    @@ (AgentState.HEALTHY :> <<AgentState.DEGRADED, AgentState.FAILED, AgentState.STOPPED>>)
    @@ (AgentState.DEGRADED :> <<AgentState.HEALTHY, AgentState.RECOVERING, AgentState.FAILED>>)
    @@ (AgentState.RECOVERING :> <<AgentState.HEALTHY, AgentState.DEGRADED, AgentState.FAILED>>)
    @@ (AgentState.FAILED :> <<AgentState.RECOVERING, AgentState.STOPPED>>)
    @@ (AgentState.STOPPED :> <<AgentState.STARTING>>)

\* StateMachine.can_transition (state_machine.py:42-43)
MutAnyTransition(st, new_state) == TRUE
can_transition(st, new_state) ==
    ListContains(DictGet(VALID_TRANSITIONS, st, <<>>), new_state)

\* StateMachine.transition (state_machine.py:45-59).  No callback is
\* registered; whatever a callback raises is swallowed (lines 53-57).
Transition ==
    /\ Len(history) < MaxTransitions
    /\ \E new_state \in { AgentState[k] : k \in DOMAIN AgentState } :
          LET ok == can_transition(sm_state, new_state) IN
          /\ sm_state' = IF ok THEN new_state ELSE sm_state
          /\ history' = IF ok THEN Append(history, <<sm_state, new_state>>)
                        ELSE history
          /\ sm_op' = [name |-> "transition", new_state |-> new_state,
                       ret |-> ok, pre_state |-> sm_state,
                       pre_history |-> history]
    /\ UNCHANGED <<now, cbvars, cbobs, recvars, qvars, schedvars, cycvars,
                   cycle_log, version, snapshots, mem_op,
                   config, tokens, last_update, bucket_op, retry_op>>

----------------------------------------------------------------------------
\* Token bucket (src/src/rate_limiter.py).  Token counts are whole numbers;
\* time.sleep sleeps the whole seconds that cover the wait it is given.

MaxTimeBucket == 6       \* no call is made after this time
MaxRequest == 5          \* largest number of tokens a call asks for

\* RateLimiter._refill (rate_limiter.py:26-33): tokens after the refill
_refill(cfg, tk, last, t) ==
    LET elapsed == t - last
        refilled == tk + elapsed * cfg.tokens_per_second
    IN IF cfg.max_tokens < refilled THEN cfg.max_tokens ELSE refilled

\* RateLimiter.acquire (rate_limiter.py:35-40), called d seconds after the
\* previous call returned
Acquire ==
    \E d \in 0..1, n \in 1..MaxRequest :
       LET t == now + d
           refilled == _refill(config, tokens, last_update, t)
           ok == refilled >= n
       IN
       /\ t <= MaxTimeBucket
       /\ tokens' = IF ok THEN refilled - n ELSE refilled
       /\ last_update' = t
       /\ now' = t
       /\ bucket_op' = [name |-> "acquire", n |-> n, at |-> t, ret |-> ok,
                        pre_tokens |-> tokens,
                        pre_update |-> last_update, slept |-> 0]
       /\ UNCHANGED <<config, cbvars, cbobs, recvars, qvars, schedvars, cycvars,
                      cycle_log, version, snapshots, mem_op,
                      sm_state, history, sm_op, retry_op>>

\* RateLimiter.wait_and_acquire (rate_limiter.py:42-53)
WaitAndAcquire ==
    \E d \in 0..1, n \in 1..MaxRequest :
       LET t == now + d
           refilled == _refill(config, tokens, last_update, t)
           needed == n - refilled
           wait_ms == (needed * 1000) \div config.tokens_per_second
           slept == (wait_ms + 999) \div 1000
           again == _refill(config, refilled, t, t + slept)
       IN
       /\ t <= MaxTimeBucket
       /\ IF refilled >= n
          THEN /\ tokens' = refilled - n
               /\ last_update' = t
               /\ now' = t
               /\ bucket_op' = [name |-> "wait_and_acquire", n |-> n, at |-> t,
                                ret |-> 0,
                                pre_tokens |-> tokens,
                                pre_update |-> last_update, slept |-> 0]
          ELSE /\ tokens' = again - n
               /\ last_update' = t + slept
               /\ now' = t + slept
               /\ bucket_op' = [name |-> "wait_and_acquire", n |-> n, at |-> t,
                                ret |-> wait_ms,
                                pre_tokens |-> tokens,
                                pre_update |-> last_update, slept |-> slept]
       /\ UNCHANGED <<config, cbvars, cbobs, recvars, qvars, schedvars, cycvars,
                      cycle_log, version, snapshots, mem_op,
                      sm_state, history, sm_op, retry_op>>

----------------------------------------------------------------------------
\* Bounded retry (src/src/retry_handler.py).  Delays are in milliseconds.

MaxAttempts == 3         \* largest max_attempts of a RetryConfig

\* calculate_delay (retry_handler.py:33-41); rnd is random.random() in
\* thousandths, 0 <= rnd < 1000
calculate_delay(attempt, cfg, rnd) ==
    LET delay == cfg.base_delay * (cfg.exponential_base ^ attempt)
        capped == IF delay < cfg.max_delay THEN delay ELSE cfg.max_delay
    IN IF cfg.jitter THEN (capped * (500 + rnd)) \div 1000 ELSE capped

\* retry_handler.py:59  `if attempt < config.max_attempts - 1`
MutSleepsAfterLast(attempt, cfg) == TRUE
backs_off(attempt, cfg) == attempt < cfg.max_attempts - 1

\* retry(config)(func), the wrapper (retry_handler.py:51-67), from the
\* iteration `attempt` of its loop on.  outcomes[i] tells what the i-th
\* invocation of func does: "ok" (returns), "Exception" (raises an
\* Exception) or "KeyboardInterrupt" (raises a BaseException that
\* `except Exception` does not catch).  Returns what the call did:
\* invocations made, delays slept, and how it ended.
RECURSIVE wrapper(_, _, _, _, _, _)
wrapper(attempt, cfg, outcomes, rnd, last_error, slept) ==
    IF attempt >= cfg.max_attempts
    THEN [invoked |-> attempt, slept |-> slept, ended |-> "RetryError",
          value |-> None, attempts |-> cfg.max_attempts,
          last_error |-> last_error]
    ELSE IF outcomes[attempt + 1] = "ok"
    THEN [invoked |-> attempt + 1, slept |-> slept, ended |-> "returned",
          value |-> <<"result", attempt + 1>>, attempts |-> 0,
          last_error |-> None]
    ELSE IF outcomes[attempt + 1] = "KeyboardInterrupt"
    THEN [invoked |-> attempt + 1, slept |-> slept, ended |-> "KeyboardInterrupt",
          value |-> None, attempts |-> 0, last_error |-> None]
    ELSE wrapper(attempt + 1, cfg, outcomes, rnd, <<"error", attempt + 1>>,
                 IF backs_off(attempt, cfg)
                 THEN Append(slept, calculate_delay(attempt, cfg, rnd))
                 ELSE slept)

\* One call of a function decorated with @retry(config)
RetryCall ==
    /\ \E max_attempts \in 0..MaxAttempts, jitter \in BOOLEAN,
          rnd \in {0, 500, 999},
          outcomes \in [1..MaxAttempts -> {"ok", "Exception", "KeyboardInterrupt"}] :
          LET cfg == [max_attempts |-> max_attempts, base_delay |-> 1000,
                      max_delay |-> 1500, exponential_base |-> 2,
                      jitter |-> jitter]
          IN retry_op' = [name |-> "call", config |-> cfg,
                          outcomes |-> outcomes,
                          did |-> wrapper(0, cfg, outcomes, rnd, None, <<>>)]
    /\ UNCHANGED <<now, cbvars, cbobs, recvars, qvars, schedvars, cycvars,
                   cycle_log, version, snapshots, mem_op,
                   sm_state, history, sm_op,
                   config, tokens, last_update, bucket_op>>

----------------------------------------------------------------------------
\* Specifications

\* The breaker alone, driven by arbitrary calls
InitCB ==
    /\ now = 0
    /\ CBInit
    /\ RecInit
    /\ QInit
    /\ SchedInit
    /\ CycInit
    /\ UtilInit
    /\ bridge_installed = TRUE
    /\ agent_cfg = [a \in {RegisteredAgent} |->
                       AgentConfig(a, "svc-a.service", NoName, MaxRestartsCfg)]

NextCB ==
    \/ CanExecute
    \/ RecordSuccess
    \/ RecordFailure
    \/ GetStatus
    \/ CBTick

SpecCB == InitCB /\ [][NextCB]_vars

\* Full cycles of the Recoverer
InitRec ==
    /\ now = 0
    /\ CBInit
    /\ RecInit
    /\ QInit
    /\ SchedInit
    /\ CycInit
    /\ UtilInit
    /\ bridge_installed = TRUE
    /\ agent_cfg \in AgentRegistries

NextRec ==
    \/ CycleBegin
    \/ CycleStep
    \/ CycleEnd
    \/ RecTick

SpecRec == InitRec /\ [][NextRec]_vars

\* Full cycles while the dependency's breaker records failures
NextDep ==
    \/ DepCycleBegin
    \/ CycleStep
    \/ CycleEnd
    \/ RecordFailure
    \/ CanExecute

SpecDep == InitRec /\ [][NextDep]_vars

\* The quarantine gate, driven by arbitrary calls
NextQ ==
    \/ Submit
    \/ Confirm
    \/ Reject
    \/ GetPending
    \/ QTick

SpecQ == InitCB /\ [][NextQ]_vars

\* The continuous loop, with and without the gemini_bridge module
InitSched ==
    /\ now = 0
    /\ CBInit
    /\ RecInit
    /\ QInit
    /\ SchedInit
    /\ CycInit
    /\ UtilInit
    /\ bridge_installed \in BOOLEAN
    /\ agent_cfg = [a \in {RegisteredAgent} |->
                       AgentConfig(a, "svc-a.service", NoName, MaxRestartsCfg)]

NextSched ==
    \/ RunStart
    \/ Tick
    \/ CycleReturn
    \/ HandleShutdown
    \/ LoopExit

SpecSched == InitSched /\ [][NextSched]_vars

\* The loop seen at its full cycles only
SpecInt == InitCB /\ [][RunStart \/ EscalatedIteration]_vars

\* A memory manager driven by arbitrary calls
SpecMem == InitCB /\ [][CreateSnapshot \/ GetLatestSnapshot \/ GetSnapshotByVersion]_vars

\* One agent's state machine driven by arbitrary transition calls
SpecSM == InitCB /\ [][Transition]_vars

\* One rate limiter driven by arbitrary calls
SpecBucket == InitCB /\ [][Acquire \/ WaitAndAcquire]_vars

\* Calls of one decorated function
SpecRetry == InitCB /\ [][RetryCall]_vars

\* One full cycle over every snapshot the Observer may return
InitCyc ==
    /\ now = 0
    /\ CBInit
    /\ RecInit
    /\ QInit
    /\ SchedInit
    /\ CycInit
    /\ UtilInit
    /\ bridge_installed = TRUE
    /\ agent_cfg \in ProbedRegistries

NextCyc ==
    \/ RunCycleBegin
    \/ RunCycleStep
    \/ RunCycleReturn

SpecCyc == InitCyc /\ [][NextCyc]_vars

\* The Verifier alone, driven by arbitrary calls of confirm
SpecVer == InitCyc /\ [][ConfirmCall]_vars

Spec == SpecRec

----------------------------------------------------------------------------
\* Seconds between the last recorded failure and now (0 when none was recorded).
SinceLastFailure ==
    IF last_failure_time = None THEN 0 ELSE now - last_failure_time[1]

----------------------------------------------------------------------------
\* C1: starting from Closed, once failure_threshold consecutive
\* record_failure() calls were made with no record_success() in between the
\* breaker is Open, and a can_execute() made before the timeout has elapsed
\* returns false; with fewer consecutive failures the breaker is still Closed.
C1_OpensAtThreshold ==
    /\ (run_start = CircuitState.CLOSED /\ consec >= failure_threshold /\ cb_op = "record_failure")
          => state = CircuitState.OPEN
    /\ (run_start = CircuitState.CLOSED /\ consec >= failure_threshold /\ cb_op = "can_execute"
          /\ SinceLastFailure < timeout_seconds)
          => (cb_ret = FALSE /\ state = CircuitState.OPEN)
    /\ (run_start = CircuitState.CLOSED /\ consec < failure_threshold) => state = CircuitState.CLOSED

C1_Witness ==
    /\ cb_op = "can_execute"
    /\ run_start = CircuitState.CLOSED
    /\ consec = failure_threshold
    /\ cb_pre.failure_count = failure_threshold
    /\ SinceLastFailure < timeout_seconds
    /\ cb_ret = FALSE
    /\ state = CircuitState.OPEN

\* C2: a can_execute() on an Open breaker less than timeout_seconds after the
\* last failure returns false and leaves it Open; once timeout_seconds have
\* elapsed it returns true and moves it to HalfOpen; the returned value is
\* true iff the state after the call is Closed or HalfOpen.
C2_CanExecuteOnOpen ==
    cb_op = "can_execute" =>
        /\ cb_pre.state = CircuitState.OPEN => last_failure_time # None
        /\ (cb_pre.state = CircuitState.OPEN /\ SinceLastFailure < timeout_seconds)
              => (cb_ret = FALSE /\ state = CircuitState.OPEN)
        /\ (cb_pre.state = CircuitState.OPEN /\ SinceLastFailure >= timeout_seconds)
              => (cb_ret = TRUE /\ state = CircuitState.HALF_OPEN)
        /\ cb_pre.state # CircuitState.OPEN => state = cb_pre.state
        /\ cb_ret <=> (state \in {CircuitState.CLOSED, CircuitState.HALF_OPEN})

C2_Witness ==
    /\ cb_op = "can_execute"
    /\ cb_pre.state = CircuitState.OPEN
    /\ SinceLastFailure = timeout_seconds
    /\ cb_ret = TRUE
    /\ state = CircuitState.HALF_OPEN

\* C3: in HalfOpen the success_threshold-th record_success() closes the
\* breaker with failure_count = 0 and success_count = 0; after fewer
\* successes it is still HalfOpen.
C3_HalfOpenCloses ==
    (cb_op = "record_success" /\ cb_pre.state = CircuitState.HALF_OPEN) =>
        /\ probe_successes >= success_threshold
              => (state = CircuitState.CLOSED /\ failure_count = 0 /\ success_count = 0)
        /\ probe_successes < success_threshold => state = CircuitState.HALF_OPEN

C3_Witness ==
    /\ cb_op = "record_success"
    /\ cb_pre.state = CircuitState.HALF_OPEN
    /\ cb_pre.failure_count >= failure_threshold
    /\ probe_successes = success_threshold
    /\ state = CircuitState.CLOSED
    /\ failure_count = 0
    /\ success_count = 0

\* C4: a record_failure() while HalfOpen opens the breaker at once and
\* discards the successes counted so far: an Open breaker has
\* success_count = 0, so the successes counted in HalfOpen are exactly those
\* of the current probe.
C4_HalfOpenFailureOpens ==
    /\ (cb_op = "record_failure" /\ cb_pre.state = CircuitState.HALF_OPEN)
          => (state = CircuitState.OPEN /\ success_count = 0)
    /\ state = CircuitState.OPEN => success_count = 0
    /\ state = CircuitState.HALF_OPEN => success_count = probe_successes

C4_Witness ==
    /\ cb_op = "record_failure"
    /\ cb_pre.state = CircuitState.HALF_OPEN
    /\ cb_pre.success_count = success_threshold - 1
    /\ state = CircuitState.OPEN
    /\ success_count = 0

\* C5: record_success() while Closed resets failure_count to 0, and as long
\* as no run of consecutive failures has reached failure_threshold the
\* breaker is Closed.
C5_SuccessResetsFailures ==
    /\ (cb_op = "record_success" /\ cb_pre.state = CircuitState.CLOSED)
          => (failure_count = 0 /\ state = CircuitState.CLOSED)
    /\ ~long_run => (state = CircuitState.CLOSED /\ failure_count = consec)

C5_Witness ==
    /\ cb_op = "record_success"
    /\ cb_pre.state = CircuitState.CLOSED
    /\ cb_pre.failure_count = failure_threshold - 1
    /\ failure_count = 0
    /\ state = CircuitState.CLOSED
    /\ ~long_run

\* C6: get_status() leaves every field of the breaker record unchanged, and
\* so does the passage of time; can_execute() changes at most the state, and
\* only from Open to HalfOpen.
C6_StatusQueryIsPure ==
    /\ cb_op = "get_status" => CBRecord = cb_pre
    /\ cb_op = "tick" => CBRecord = cb_pre
    /\ cb_op = "can_execute" =>
          \/ CBRecord = cb_pre
          \/ (cb_pre.state = CircuitState.OPEN /\ CBRecord = [cb_pre EXCEPT !.state = CircuitState.HALF_OPEN])

\* C7: a dependency-targeted action (SwitchDependencyEndpoint, ApplyCooldown)
\* handled while the dependency's breaker is Open and its timeout has not
\* elapsed is not performed: the result is Skipped and nothing was done.
C7_OpenBreakerSkips ==
    (cyc_pc = "recover" /\ step.plan.action \in {RecoveryAction.SWITCH_RPC, RecoveryAction.APPLY_COOLDOWN} /\ step.blocked)
        => (step.result.status = RecoveryStatus.SKIPPED /\ step.effects = {})

\* C8: for an incident with requires_human = true the plan is AlertHuman with
\* requires_human = true, and the cycle executes nothing for it: no process
\* is started, no endpoint switched, no sleep made, no restart recorded.
C8_HumanNeverExecuted ==
    step.incident.requires_human =>
        /\ step.plan.action = RecoveryAction.ALERT_HUMAN
        /\ step.plan.requires_human
        /\ ~step.executed
        /\ step.effects = {}
        /\ now = step.at

C8_Witness ==
    /\ cyc_pc = "recover"
    /\ step.incident.requires_human
    /\ step.incident.incident_type = IncidentType.PROCESS_CRASH
    /\ step.count < agent_cfg[RegisteredAgent].max_restarts
    /\ step.plan.action = RecoveryAction.ALERT_HUMAN
    /\ ~step.executed

\* The step handled a ProcessCrash incident of a registered subject that does
\* not already require a human (the Diagnoser's ProcessCrash incidents never do).
CrashStep ==
    /\ cyc_pc = "recover"
    /\ step.incident.incident_type = IncidentType.PROCESS_CRASH
    /\ ~step.incident.requires_human
    /\ is_registered(agent_cfg, step.incident.agent_name)

\* C9: for a ProcessCrash incident on a registered subject the plan is
\* AlertHuman (requires_human = true, with the max-restarts reason) when the
\* restarts recorded for the subject in the last 30 minutes are at least
\* max_restarts, and RestartProcess when they are fewer.
C9_RestartCapPlan ==
    CrashStep =>
        LET maxr == agent_cfg[step.incident.agent_name].max_restarts IN
        /\ step.count >= maxr =>
              /\ step.plan.action = RecoveryAction.ALERT_HUMAN
              /\ step.plan.requires_human
              /\ step.plan.reason = "max_restarts_exceeded"
        /\ step.count < maxr =>
              /\ step.plan.action = RecoveryAction.RESTART_PROCESS
              /\ ~step.plan.requires_human

C9_Witness ==
    /\ CrashStep
    /\ step.count >= agent_cfg[step.incident.agent_name].max_restarts
    /\ step.plan.action = RecoveryAction.ALERT_HUMAN
    /\ step.plan.reason = "max_restarts_exceeded"
    /\ ~step.executed

\* C10: for every subject, the RestartProcess executions attempted inside any
\* 30-minute window (succeeding or failing, for ProcessCrash or ProcessHang)
\* never exceed the subject's max_restarts, and once that many were attempted
\* in the window the subject's plans are AlertHuman.
C10_RestartAttemptsCapped ==
    \A a \in DOMAIN agent_cfg :
        /\ \A i \in 1..Len(all_attempts[a]) :
              Cardinality({ j \in i..Len(all_attempts[a]) :
                              all_attempts[a][j].at - all_attempts[a][i].at
                                  < window_minutes * 60 })
                 <= agent_cfg[a].max_restarts
        /\ (/\ cyc_pc = "recover"
            /\ step.incident.agent_name = a
            /\ step.incident.incident_type \in {IncidentType.PROCESS_CRASH, IncidentType.PROCESS_HANG}
            /\ step.attempts >= agent_cfg[a].max_restarts)
              => step.plan.action = RecoveryAction.ALERT_HUMAN

----------------------------------------------------------------------------
----------------------------------------------------------------------------
\* Quarantine gate: claims

\* The call just made was submit or confirm on an item that was Pending
QCallOnPending ==
    /\ q_op.name \in {"submit", "confirm"}
    /\ q_op.item_id \in DOMAIN q_op.pre
    /\ q_op.pre[q_op.item_id].status = QuarantineStatus.PENDING

\* Time t is past the item's expiry time
PastExpiry(item, t) == t > fromisoformat(item.expires_at)

\* C11: every Verified item has confirmations >= required_confirmations, and
\* a submit or confirm made after a Pending item's expiry time does not turn
\* the item into Verified.
C11_VerifiedOnlyBeforeExpiry ==
    /\ \A id \in DOMAIN items :
          items[id].status = QuarantineStatus.VERIFIED
              => items[id].confirmations >= items[id].required_confirmations
    /\ (QCallOnPending /\ q_op.fresh
            /\ PastExpiry(q_op.pre[q_op.item_id], now))
          => items[q_op.item_id].status # QuarantineStatus.VERIFIED

\* C12: an item that was Verified, Rejected or Expired before a submit,
\* confirm, reject or get_pending call has the same status after it.
C12_TerminalStatusesStay ==
    \A id \in DOMAIN q_op.pre :
        q_op.pre[id].status \in {QuarantineStatus.VERIFIED,
                                  QuarantineStatus.REJECTED,
                                  QuarantineStatus.EXPIRED}
            => items[id].status = q_op.pre[id].status

\* The distinct sources that submitted or confirmed the content so far
DistinctSources(item_id) == q_srcs[item_id].submit \cup q_srcs[item_id].confirm

\* C13: while fewer than required_confirmations distinct sources have
\* submitted or confirmed a content, is_trusted(content) is false; and when a
\* submit or confirm on a Pending item, made no later than the item's expiry
\* time, brings the number of distinct sources to required_confirmations,
\* the item is Verified and is_trusted(content) is true.
C13_ThresholdOfDistinctSources ==
    \A content \in Contents :
        LET id == _generate_id(content) IN
        id \in DOMAIN items =>
            /\ Cardinality(DistinctSources(id)) < items[id].required_confirmations
                  => ~is_trusted(items, content)
            /\ (/\ QCallOnPending /\ q_op.item_id = id /\ q_op.fresh
                 /\ ~PastExpiry(items[id], now)
                 /\ Cardinality(DistinctSources(id))
                        >= items[id].required_confirmations)
                  => (items[id].status = QuarantineStatus.VERIFIED /\ is_trusted(items, content))

\* C14: a submit of a Pending item's content by a source that submitted that
\* content before leaves confirmations as it was; an item that requires two
\* or more confirmations and was never confirmed through confirm() is
\* Verified only if two or more distinct sources submitted it.
C14_ResubmitDoesNotCount ==
    /\ (/\ QCallOnPending
         /\ q_op.name = "submit"
         /\ LET notes == q_op.pre[q_op.item_id].review_notes
            IN  \/ ListContains(notes, <<"Submitted by: ">> \o q_op.source)
                \/ ListContains(notes, <<"Confirmed by: ">> \o q_op.source))
          => items[q_op.item_id].confirmations
                = q_op.pre[q_op.item_id].confirmations
    /\ \A id \in DOMAIN items :
          (/\ items[id].status = QuarantineStatus.VERIFIED
           /\ items[id].required_confirmations >= 2
           /\ q_srcs[id].confirm = {})
             => Cardinality(q_srcs[id].submit) >= 2

\* C15: right after get_pending() every item that was Pending and past its
\* expiry time is Expired, no item it returned is past its expiry time, and
\* no Pending item past its expiry time is left; the content of an item that
\* was marked Expired is not trusted, then and after every later call.
C15_LazyExpiry ==
    /\ (q_op.name = "get_pending" /\ q_op.fresh) =>
          /\ \A id \in DOMAIN q_op.pre :
                (q_op.pre[id].status = QuarantineStatus.PENDING /\ PastExpiry(q_op.pre[id], now))
                    => items[id].status = QuarantineStatus.EXPIRED
          /\ \A id \in q_op.ret_ids : ~PastExpiry(items[id], now)
          /\ \A id \in DOMAIN items :
                ~(items[id].status = QuarantineStatus.PENDING /\ PastExpiry(items[id], now))
    /\ \A content \in Contents :
          _generate_id(content) \in q_expired => ~is_trusted(items, content)

\* get_pending() has just marked an item Expired that lacked confirmations,
\* and did not return it
C15_Witness ==
    /\ q_op.name = "get_pending"
    /\ q_op.fresh
    /\ \E id \in DOMAIN q_op.pre :
          /\ q_op.pre[id].status = QuarantineStatus.PENDING
          /\ q_op.pre[id].confirmations < q_op.pre[id].required_confirmations
          /\ PastExpiry(q_op.pre[id], now)
          /\ items[id].status = QuarantineStatus.EXPIRED
          /\ id \notin q_op.ret_ids
          /\ id \in q_expired

----------------------------------------------------------------------------
\* Escalation scheduler: claims

\* C16: any two Tier1 requests of a run are at least 120 seconds apart; a
\* beat asks Tier1 only on a Tier0 alert with the window open, an alert
\* inside the window asks nothing, and a healthy beat asks nothing (no call
\* is carried over from a skipped alert).
C16_Tier1OncePerWindow ==
    /\ Len(tier1_times) = 2
          => tier1_times[2] - tier1_times[1] >= min_seconds_between_gemini
    /\ tick.asked => (~tick.healthy /\ tick.window_open)
    /\ (~tick.healthy /\ ~tick.window_open) => ~tick.asked
    /\ tick.healthy => ~tick.asked

\* C17: any two starts of a full cycle are at least 300 seconds apart.
C17_CyclesFiveMinutesApart ==
    Len(cycle_starts) = 2
        => cycle_starts[2] - cycle_starts[1] >= min_seconds_between_ai_calls

\* C18: a full cycle starts only in a run in which Tier0 has raised an alert,
\* and only when Tier1 asked for escalation or could not be reached.
C18_CycleOnlyAfterAlert ==
    /\ Len(cycle_starts) > 0 => alert_seen
    /\ tick.cycle => /\ alert_seen
                     /\ \/ ~bridge_installed
                        \/ tick.o2 \in {"answer_escalate", "answer_action",
                                         "exception", "error_status"}

\* C19: whenever a Tier1 request is attempted, by a beat or by the deep
\* check, and the bridge is missing or the request fails, the iteration
\* takes the outcome as escalate = true; an escalating beat wakes Tier2
\* unless the Tier2 rate limit forbids it.  Tier1 requests that fail:
\* exception, error status, no usable answer.
C19_Tier1FailsSafe ==
    LET FailedOutcomes == {"exception", "error_status", "unparseable"} IN
    /\ (tick.asked /\ (~bridge_installed \/ tick.o1 \in FailedOutcomes))
          => tick.beat_escalate
    /\ (tick.deep /\ (~bridge_installed \/ tick.o2 \in FailedOutcomes))
          => tick.deep_escalate
    /\ (tick.beat_escalate /\ ~tick.woke)
          => (tick.cycle \/ (last_ai_call_time # None
                               /\ tick.at - last_ai_call_time[1]
                                     < min_seconds_between_ai_calls))

\* C20: an iteration in which the beat or the full cycle raised an exception
\* ends with the 30-second pause and leaves the loop running; the loop is
\* left only after a stop signal or KeyboardInterrupt.
C20_ExceptionsCaughtAtLoop ==
    /\ tick.raised \in {"beat", "cycle"}
          => /\ tick.slept = ExceptionPause
             /\ now = tick.at + ExceptionPause
             /\ sched_pc = "loop" \/ stop_seen
    /\ sched_pc = "stopped" => stop_seen

\* An iteration ran to its end right after one whose full cycle raised
C20_Witness ==
    /\ tick.prev_raised = "cycle"
    /\ tick.raised = "none"
    /\ tick.at > 0
    /\ sched_pc = "loop"
    /\ ~stop_seen

\* C21: once the stop signal has set the flag, the iteration in progress
\* runs to its end (a full cycle in progress returns or raises as it would
\* have, and the closing sleep is taken), no further iteration starts, and
\* the loop can always take its exit: the flag is read only at the loop test.
C21_StopFinishesTickThenExits ==
    /\ [][(sched_pc = "loop" /\ ~running)
             => (sched_pc' = "stopped" /\ tick' = tick /\ now' = now
                 /\ cycle_count' = cycle_count)]_vars
    /\ [][(sched_pc = "cycle" /\ ~running)
             => (/\ sched_pc' \in {"loop", "stopped"}
                 /\ running' = running
                 /\ tick'.at = tick.at
                 /\ cycle_count' = cycle_count
                 /\ tick'.raised = "none" => now' = now + interval)]_vars
    /\ []((sched_pc = "loop" /\ ~running) => ENABLED LoopExit)
    /\ []((sched_pc = "cycle" /\ ~running) => ENABLED CycleReturn)

\* The loop was left after an iteration during whose full cycle the stop
\* signal arrived; the cycle returned and the closing sleep was taken.
C21_Witness ==
    /\ sched_pc = "stopped"
    /\ ~running
    /\ tick.signalled
    /\ tick.cycle
    /\ tick.raised = "none"
    /\ tick.slept = interval
    /\ now = tick.at + interval

\* C22: while a full cycle is in progress no other full cycle starts, whether
\* the stop signal arrives meanwhile or the beat of the same iteration
\* escalated as well; an iteration starts at most one cycle.
C22_SingleFlight ==
    /\ [][sched_pc = "cycle"
             => (cycle_count' = cycle_count /\ cycle_starts' = cycle_starts)]_vars
    /\ [][cycle_count' <= cycle_count + 1]_vars

\* The stop signal has arrived while the full cycle of an iteration whose
\* beat escalated too is in progress.
C22_Witness ==
    /\ sched_pc = "cycle"
    /\ ~running
    /\ tick.signalled
    /\ tick.beat_escalate
    /\ tick.deep_escalate

----------------------------------------------------------------------------
\* Diagnoser and Verifier properties (SpecCyc, SpecVer)

\* C24: when every subject of the snapshot is healthy and the dependency is
\* healthy with a latency of at most 2000 ms, analyze returns the empty list.
C24_HealthyYieldsNothing ==
    (/\ fc_pc = "recover"
     /\ \A a \in DOMAIN snapshot.agents :
           snapshot.agents[a].status = AgentStatus.HEALTHY
     /\ snapshot.solana_rpc.healthy
     /\ snapshot.solana_rpc.latency_ms[1] <= 2000)
    => diagnosed = <<>>

\* A healthy subject whose endpoint answers slowly, next to a dependency
\* right at its latency threshold: nothing is diagnosed.
C24_Witness ==
    /\ fc_pc = "recover"
    /\ snapshot.agents[RegisteredAgent].status = AgentStatus.HEALTHY
    /\ "health_endpoint" \in DOMAIN snapshot.agents[RegisteredAgent].checks
    /\ snapshot.agents[RegisteredAgent].checks["health_endpoint"].latency_ms = <<5001>>
    /\ snapshot.solana_rpc.healthy
    /\ snapshot.solana_rpc.latency_ms = <<2000>>
    /\ diagnosed = <<>>

\* C25: a subject whose process probe reports running = false gets exactly
\* one incident, a ProcessCrash of severity Critical that needs no human,
\* whatever its other probes report.
C25_CrashYieldsOneIncident ==
    fc_pc = "recover" =>
       \A a \in DOMAIN snapshot.agents :
          LET checks == snapshot.agents[a].checks
              mine == SelectSeq(diagnosed, LAMBDA inc : inc.agent_name = a)
          IN ("process" \in DOMAIN checks /\ ~checks["process"].running)
             => /\ Len(mine) = 1
                /\ mine[1].incident_type = IncidentType.PROCESS_CRASH
                /\ mine[1].severity = IncidentSeverity.CRITICAL
                /\ ~mine[1].requires_human

\* C26: a subject of an Observer snapshot whose health endpoint is healthy
\* with a latency above 5000 ms gets a HighLatency incident of severity
\* Warning, also when none of its other checks fails.
C26_SlowEndpointYieldsHighLatency ==
    fc_pc = "recover" =>
       \A a \in DOMAIN snapshot.agents :
          LET checks == snapshot.agents[a].checks
          IN ("health_endpoint" \in DOMAIN checks
              /\ checks["health_endpoint"].healthy
              /\ checks["health_endpoint"].latency_ms[1] > 5000)
             => \E i \in 1..Len(diagnosed) :
                   /\ diagnosed[i].agent_name = a
                   /\ diagnosed[i].incident_type = IncidentType.HIGH_LATENCY
                   /\ diagnosed[i].severity = IncidentSeverity.WARNING

\* C27: the incidents without a subject are: for an unhealthy dependency
\* exactly one, Critical, DependencyRateLimited when the error text carries a
\* rate-limit signature ("429" or the word rate in any case) and
\* DependencyUnavailable otherwise; for a healthy dependency slower than
\* 2000 ms exactly one HighLatency Warning; for a healthy dependency at or
\* below 2000 ms none.
C27_DependencyRules ==
    fc_pc = "recover" =>
       LET rpc == snapshot.solana_rpc
           system_wide == SelectSeq(diagnosed, LAMBDA inc : inc.agent_name = NoName)
           signature == \E i \in 1..Len(rpc.error) :
                           rpc.error[i] \in {"429", "rate", "Rate", "RATE"}
       IN IF ~rpc.healthy
          THEN /\ Len(system_wide) = 1
               /\ system_wide[1].severity = IncidentSeverity.CRITICAL
               /\ system_wide[1].incident_type =
                     IF signature THEN IncidentType.RPC_RATE_LIMITED
                     ELSE IncidentType.RPC_UNAVAILABLE
          ELSE IF rpc.latency_ms[1] > 2000
          THEN /\ Len(system_wide) = 1
               /\ system_wide[1].severity = IncidentSeverity.WARNING
               /\ system_wide[1].incident_type = IncidentType.HIGH_LATENCY
          ELSE system_wide = <<>>

\* An unhealthy dependency whose error text spells the signature with a
\* capital letter was diagnosed as rate limited.
C27_Witness ==
    /\ fc_pc = "recover"
    /\ ~snapshot.solana_rpc.healthy
    /\ snapshot.solana_rpc.error = <<"Rate", "limit", "exceeded">>
    /\ diagnosed # <<>>
    /\ diagnosed[Len(diagnosed)].incident_type = IncidentType.RPC_RATE_LIMITED
    /\ diagnosed[Len(diagnosed)].agent_name = NoName

\* C28: a subject with failed operations gets an OperationFailures incident
\* of severity Warning that requires a human; the plan for it is AlertHuman;
\* executing that plan returns Skipped and does nothing to the outside
\* world; and the cycle does not hand it to execute.
C28_OperationFailuresNeverAutoRecovered ==
    /\ fc_pc = "recover" =>
          \A a \in DOMAIN snapshot.agents :
             LET checks == snapshot.agents[a].checks
             IN ("transactions" \in DOMAIN checks /\ checks["transactions"].failed > 0)
                => \E i \in 1..Len(diagnosed) :
                      LET plan == plan_action(diagnosed[i], agent_cfg,
                                              restart_attempts, now)
                      IN /\ diagnosed[i].agent_name = a
                         /\ diagnosed[i].incident_type = IncidentType.TRANSACTION_FAILURES
                         /\ diagnosed[i].severity = IncidentSeverity.WARNING
                         /\ diagnosed[i].requires_human
                         /\ plan.action = RecoveryAction.ALERT_HUMAN
                         /\ \A outs \in RestartOutcomes :
                               /\ execute(plan, outs).status = RecoveryStatus.SKIPPED
                               /\ EffectsOf(execute(plan, outs)) = {}
    /\ handled.incident.incident_type = IncidentType.TRANSACTION_FAILURES
          => (handled.plan.action = RecoveryAction.ALERT_HUMAN /\ ~handled.executed)

\* The recovery loop has just handled an OperationFailures incident of a
\* subject whose process is down as well.
C28_Witness ==
    /\ fc_pc = "recover"
    /\ handled.incident.incident_type = IncidentType.TRANSACTION_FAILURES
    /\ handled.plan.action = RecoveryAction.ALERT_HUMAN
    /\ snapshot.agents[handled.incident.agent_name].status = AgentStatus.FAILED

\* C29: for a Skipped or Failed result confirm returns verified = false
\* with no check counted and calls no probe; for every other result each
\* probe is called only when the settle delay has fully elapsed since
\* confirm was called.
C29_ProbesOnlyAfterSettle ==
    handled.confirmed =>
       LET v == handled.verification
       IN /\ handled.result.status \in {RecoveryStatus.SKIPPED, RecoveryStatus.FAILED}
             => (~v.verified /\ v.checks_passed = 0 /\ v.checks_failed = 0
                 /\ v.calls = <<>>)
          /\ \A i \in 1..Len(v.calls) :
                v.calls[i].at >= handled.confirm_at + verification_delay

\* confirm re-checked both the process and the health of a restarted subject
C29_Witness ==
    /\ handled.confirmed
    /\ handled.result.status = RecoveryStatus.SUCCESS
    /\ handled.plan.action = RecoveryAction.RESTART_PROCESS
    /\ Len(handled.verification.calls) = 2
    /\ handled.verification.calls[1].at = verification_delay

\* C30: for a result that is neither Skipped nor Failed, confirm returns
\* verified = true exactly when every re-check relevant to the action
\* passes: the process and the health endpoint of the subject, as far as it
\* has them, for a restart; the dependency's health for an endpoint switch
\* and for a cooldown.  This includes subjects without process name and
\* health endpoint and subjects that are not registered.
C30_VerifiedIffRechecksPass ==
    (/\ handled.confirmed
     /\ handled.result.status \notin {RecoveryStatus.SKIPPED, RecoveryStatus.FAILED})
    => LET plan == handled.plan
           probe == handled.probe
           known == plan.agent_name # NoName /\ is_registered(agent_cfg, plan.agent_name)
           relevant ==
               IF plan.action = RecoveryAction.RESTART_PROCESS
               THEN (IF known /\ agent_cfg[plan.agent_name].process_name # NoName
                     THEN {probe.is_running} ELSE {})
                    \cup (IF known /\ agent_cfg[plan.agent_name].health_endpoint # NoName
                          THEN {check_health_endpoint(probe.curl).healthy} ELSE {})
               ELSE IF plan.action \in {RecoveryAction.SWITCH_RPC,
                                        RecoveryAction.APPLY_COOLDOWN}
               THEN {check_rpc_health(probe.response).healthy}
               ELSE {}
       IN handled.verification.verified <=> (\A passed \in relevant : passed)

\* C23: when a full cycle returns, the sink has received every incident
\* diagnosed in the cycle and every RecoveryResult and VerificationResult
\* that execute and confirm produced in it.
C23_CycleReportsToSink ==
    (fc_pc = "recover" /\ fc_next > Len(diagnosed))
    => /\ \A i \in 1..Len(diagnosed) :
             \E j \in 1..Len(sink) :
                sink[j] = [event |-> "log_incident", id |-> diagnosed[i].id]
       /\ \A p \in produced :
             \E j \in 1..Len(sink) :
                sink[j] = [event |-> "log_recovery", id |-> p.id]

----------------------------------------------------------------------------
\* Recoverer, state machine, breaker and utility properties

\* C31: execute of an AlertHuman or NoAction plan returns status Skipped and
\* does nothing to the outside world: it starts no process, does not move
\* the selected dependency endpoint, does not sleep, and records no restart
\* attempt.
C31_AlertAndNoActionDoNothing ==
    (cyc_pc = "recover" /\ step # NoStep
     /\ step.plan.action \in {RecoveryAction.ALERT_HUMAN, RecoveryAction.NO_ACTION})
    => \A outs \in RestartOutcomes :
          LET result == execute(step.plan, outs)
          IN /\ result.status = RecoveryStatus.SKIPPED
             /\ result.started = {} /\ result.invoked = <<>>
             /\ result.rpc_step = 0
             /\ result.slept = 0
             /\ ~result.recorded
             /\ EffectsOf(result) = {}

\* The recovery loop has planned NoAction for an incident of a registered
\* subject that has restart attempts on record.
C31_Witness ==
    /\ cyc_pc = "recover"
    /\ step.plan.action = RecoveryAction.NO_ACTION
    /\ step.incident.agent_name = RegisteredAgent
    /\ restart_attempts[RegisteredAgent] # <<>>

\* C32: after each full cycle the next check interval is the Incident
\* interval iff the cycle produced an incident; otherwise it is the Stable
\* interval iff no cycle has produced an incident for at least
\* stable_threshold_minutes, and the Default interval in every other case.
C32_IntervalFollowsHealth ==
    cycle_log # <<>> =>
       LET n == Len(cycle_log)
           last == cycle_log[n]
           streak == { i \in 1..n : \A j \in i..n : ~cycle_log[j].incidents }
           first == CHOOSE i \in streak : \A j \in streak : i <= j
           healthy_for == last.at - cycle_log[first].at
       IN deep_check_interval =
             IF last.incidents THEN Intervals.INCIDENT
             ELSE IF healthy_for >= stable_threshold_minutes * 60
                  THEN Intervals.STABLE
                  ELSE Intervals.DEFAULT

\* C33: the k-th create_snapshot call on a manager returns version k, so
\* the versions handed out never repeat and, as long as every call returned,
\* are 1, 2, 3, ... without a gap; get_latest_snapshot returns the most
\* recently created snapshot (None when none exists);
\* get_snapshot_by_version(v) returns the snapshot created with version v,
\* or None when no snapshot was created with that version.
C33_SnapshotVersions ==
    LET created == mem_op.created
        with_version(v) == { i \in 1..Len(created) : created[i].version = v }
    IN
    /\ (mem_op.name = "create_snapshot" /\ ~mem_op.raised)
          => (mem_op.ret # None /\ mem_op.ret[1].version = mem_op.calls)
    /\ \A i, j \in 1..Len(created) :
          i < j => created[i].version < created[j].version
    /\ Len(created) = mem_op.calls
          => \A i \in 1..Len(created) : created[i].version = i
    /\ mem_op.name = "get_latest_snapshot"
          => mem_op.ret = (IF created = <<>> THEN None
                           ELSE <<created[Len(created)]>>)
    /\ mem_op.name = "get_snapshot_by_version"
          => \/ (with_version(mem_op.arg[1]) = {} /\ mem_op.ret = None)
             \/ (\E i \in with_version(mem_op.arg[1]) :
                    mem_op.ret = <<created[i]>>)

\* Version 3 was looked up after three create_snapshot calls of which the
\* second raised, and the third snapshot was returned.
C33_Witness ==
    /\ mem_op.name = "get_snapshot_by_version"
    /\ mem_op.arg = <<3>>
    /\ mem_op.calls = 3
    /\ Len(mem_op.created) = 2
    /\ mem_op.ret # None
    /\ mem_op.ret[1].version = 3

\* C34: execute of a RestartProcess plan first waits backoff_seconds, then
\* tries the restart methods one at a time in the order service manager,
\* container, custom command; it stops at the first method that succeeds
\* and returns Success naming that method; it returns Failed iff every
\* method it tried failed.
C34_RestartMethodOrder ==
    (cyc_pc = "recover" /\ step.executed
     /\ step.plan.action = RecoveryAction.RESTART_PROCESS)
    => LET result == step.result
           order == <<"systemctl", "docker", "custom_command">>
           n == Len(result.invoked)
       IN /\ result.slept = ParamGet(step.plan.parameters, "backoff_seconds", 0)
          /\ n >= 1
          /\ \A i \in 1..n : result.invoked[i] = order[i]
          /\ result.status \in {RecoveryStatus.SUCCESS, RecoveryStatus.FAILED}
          /\ result.status = RecoveryStatus.SUCCESS
                => result.method = result.invoked[n]
          /\ result.status = RecoveryStatus.FAILED
                => result.method = NoName

\* C35: the plan for an incident that does not require a human is chosen
\* by the incident type: ProcessCrash under the restart cap gives
\* RestartProcess with backoff_seconds = base * (restarts in the window + 1);
\* ProcessHang gives RestartProcess with the force flag;
\* DependencyRateLimited gives ApplyCooldown of 60 s; DependencyUnavailable
\* gives SwitchDependencyEndpoint; OperationFailures gives AlertHuman; every
\* other type gives NoAction.  The plan carries the id of its incident.
C35_PlanByIncidentType ==
    (cyc_pc = "recover" /\ step # NoStep)
    => LET incident == step.incident
           plan == step.plan
           ty == incident.incident_type
       IN
       /\ plan.incident_id = incident.id
       /\ ~incident.requires_human =>
          /\ (ty = IncidentType.PROCESS_CRASH
               /\ step.count < agent_cfg[incident.agent_name].max_restarts)
                => /\ plan.action = RecoveryAction.RESTART_PROCESS
                   /\ ParamGet(plan.parameters, "backoff_seconds", 0)
                         = agent_cfg[incident.agent_name].restart_backoff_seconds
                             * (step.count + 1)
          /\ ty = IncidentType.PROCESS_HANG
                => /\ plan.action = RecoveryAction.RESTART_PROCESS
                   /\ ParamGet(plan.parameters, "force", FALSE)
          /\ ty = IncidentType.RPC_RATE_LIMITED
                => /\ plan.action = RecoveryAction.APPLY_COOLDOWN
                   /\ ParamGet(plan.parameters, "cooldown_seconds", 0) = 60
          /\ ty = IncidentType.RPC_UNAVAILABLE
                => plan.action = RecoveryAction.SWITCH_RPC
          /\ ty = IncidentType.TRANSACTION_FAILURES
                => plan.action = RecoveryAction.ALERT_HUMAN
          /\ ty \in {IncidentType.HEALTH_ENDPOINT_FAILURE,
                      IncidentType.HIGH_LATENCY, IncidentType.UNKNOWN}
                => plan.action = RecoveryAction.NO_ACTION

\* A second restart of a crashed subject was planned, with a doubled backoff.
C35_Witness ==
    /\ cyc_pc = "recover"
    /\ ~step.incident.requires_human
    /\ step.incident.incident_type = IncidentType.PROCESS_CRASH
    /\ step.count = 1
    /\ step.plan.action = RecoveryAction.RESTART_PROCESS
    /\ step.plan.parameters.backoff_seconds = 2 * restart_backoff_seconds

C37_CounterInvariants ==
    /\ failure_threshold >= 1 /\ success_threshold >= 1
    /\ state = CircuitState.CLOSED => failure_count < failure_threshold
    /\ success_count < success_threshold
    /\ state # CircuitState.HALF_OPEN => success_count = 0

\* A breaker that had counted failure_threshold failures or more was closed
\* by the last success of a half-open probe.
C37_Witness ==
    /\ cb_op = "record_success"
    /\ cb_pre.state = CircuitState.HALF_OPEN
    /\ cb_pre.failure_count > failure_threshold
    /\ cb_pre.success_count = success_threshold - 1
    /\ state = CircuitState.CLOSED
    /\ failure_count = 0

C39_TokenBucketBounds ==
    LET available ==
            LET filled == bucket_op.pre_tokens
                          + (bucket_op.at - bucket_op.pre_update)
                            * config.tokens_per_second
            IN IF filled > config.max_tokens THEN config.max_tokens ELSE filled
    IN
    /\ 0 <= tokens /\ tokens <= config.max_tokens
    /\ bucket_op.name = "acquire" =>
          /\ bucket_op.ret <=> available >= bucket_op.n
          /\ bucket_op.ret => tokens = available - bucket_op.n
          /\ ~bucket_op.ret => tokens = available

\* C40: a function wrapped by retry(config) is invoked at most
\* max_attempts times; the wrapper returns the result of the first
\* invocation that does not raise and invokes nothing after it; when all
\* max_attempts invocations raise it raises RetryError carrying
\* attempts = max_attempts and the last error; a backoff delay is waited
\* between consecutive attempts and none after the last one.
C40_BoundedRetry ==
    retry_op.name = "call" =>
       LET cfg == retry_op.config
           outcomes == retry_op.outcomes
           did == retry_op.did
           n == cfg.max_attempts
       IN
       /\ did.invoked <= n
       /\ did.ended = "returned"
             => /\ outcomes[did.invoked] = "ok"
                /\ \A i \in 1..(did.invoked - 1) : outcomes[i] = "Exception"
                /\ did.value = <<"result", did.invoked>>
       /\ (\E i \in 1..n : outcomes[i] = "ok"
                            /\ \A j \in 1..(i - 1) : outcomes[j] = "Exception")
             => did.ended = "returned"
       /\ (\A i \in 1..n : outcomes[i] = "Exception")
             <=> did.ended = "RetryError"
       /\ did.ended = "RetryError"
             => /\ did.invoked = n
                /\ did.attempts = n
                /\ n >= 1 => did.last_error = <<"error", n>>
       /\ Len(did.slept) = (IF did.invoked = 0 THEN 0 ELSE did.invoked - 1)
       /\ \A i \in 1..Len(did.slept) :
             LET grown == cfg.base_delay * cfg.exponential_base ^ (i - 1)
                 nominal == IF grown < cfg.max_delay THEN grown
                            ELSE cfg.max_delay
             IN IF cfg.jitter
                THEN 2 * did.slept[i] >= nominal /\ 2 * did.slept[i] < 3 * nominal
                ELSE did.slept[i] = nominal

\* All three attempts raised: RetryError after two backoff delays, the
\* second of them capped by max_delay.
C40_Witness ==
    /\ retry_op.name = "call"
    /\ retry_op.config.max_attempts = 3
    /\ ~retry_op.config.jitter
    /\ retry_op.did.ended = "RetryError"
    /\ retry_op.did.invoked = 3
    /\ retry_op.did.slept = <<1000, 1500>>

====
